---- MODULE Spec2Model ----
(***************************************************************************)
(* A model of the sign-addon AMO client (src/src/amo-client.js, the        *)
(* current Client class at lines 1039-1746): sign() submits a package,     *)
(* waitForSignedAddon() polls the status URL through a validation and a    *)
(* signing phase while an abort timer runs, and downloadSignedFiles()      *)
(* fetches every signed file of a signed-and-ready report.                 *)
(*                                                                         *)
(* One step of the model is one turn of the JavaScript event loop: a timer *)
(* callback or an I/O completion callback together with all the promise    *)
(* continuations (microtasks) it triggers.                                 *)
(***************************************************************************)
EXTENDS Integers, Sequences, FiniteSets, TLC

\* ------------------------------------------------------------------ bounds

\* Number of distinct server-side objects a report can be a snapshot of.
NumPks == 1
\* Longest `files` list of a status report.
MaxFiles == 1
\* Number of next-poll timers that are allowed to fire in one session.
MaxPolls == 2
\* Longest files list handed to downloadSignedFiles by a caller of the client.
MaxDlFiles == 3
MaxDebugCalls == 2

\* ------------------------------------------------------- program constants

\* this.statusCheckInterval and this.statusCheckTimeout (milliseconds)
thisStatusCheckInterval == 1000
thisStatusCheckTimeout == 900000
maxLength == 500
defaultApiJwtExpiresIn == 300

\* ------------------------------------------------------------ value shapes

Null == [type |-> "null"]
Undefined == [type |-> "undefined"]

Pks == 1..NumPks

Guid(pk) == [type |-> "guid", pk |-> pk]
ValidationUrl(pk) == [type |-> "validation_url", pk |-> pk]
DownloadUrl(pk, i) == [type |-> "download_url", pk |-> pk, n |-> i]

\* The `files` lists of the reports of object pk: one descriptor per
\* position, signed or not, each with its own download_url.
SignedFlags == UNION {[1..n -> BOOLEAN] : n \in 0..MaxFiles}
FilesOf(pk, flags) ==
    [i \in 1..Len(flags) |-> [signed |-> flags[i], download_url |-> DownloadUrl(pk, i)]]
FileLists(pk) == {FilesOf(pk, flags) : flags \in SignedFlags}

\* automated_signing is true, false or absent from the JSON body.
AutoVals == {"true", "false", "undefined"}

\* The parsed JSON status reports of object pk that the server sends.  A
\* processed report that is active and reviewed comes with every `files`
\* list; one that lacks exactly one of the two has one signed file; one
\* that lacks both has no files.  Each of them comes valid and invalid,
\* with automated_signing true, false and absent.  An unprocessed report is
\* either blank (not active, not reviewed, no files) or valid with
\* everything in place but the processed flag.
OneSigned(files) == Len(files) = 1 /\ files[1].signed

SentByServer(r) ==
    /\ \/ r.active /\ r.reviewed
       \/ r.active # r.reviewed /\ OneSigned(r.files)
       \/ ~r.active /\ ~r.reviewed /\ Len(r.files) = 0
    /\ \/ r.processed
       \/ ~r.active /\ ~r.reviewed /\ r.automated_signing = "true"
       \/ r.active /\ r.reviewed /\ r.valid /\ OneSigned(r.files)

Reports(pk) ==
    {r \in [type : {"report"}, guid : {Guid(pk)}, validation_url : {ValidationUrl(pk)},
            processed : BOOLEAN, valid : BOOLEAN, active : BOOLEAN,
            reviewed : BOOLEAN, automated_signing : AutoVals,
            files : FileLists(pk)] : SentByServer(r)}

\* A 2xx body that is not a parsed object: the empty string, or JSON text
\* that failed to parse and was left as a string.
StringBodies == {[type |-> "string", text |-> ""],
                 [type |-> "string", text |-> "<html>"]}

StatusBodies(pk) == Reports(pk) \cup StringBodies

IsReport(b) == b.type = "report"

\* JavaScript truthiness of a received body (or of `undefined`).
Truthy(b) ==
    CASE b.type = "undefined" -> FALSE
      [] b.type = "null" -> FALSE
      [] b.type = "string" -> b.text # ""
      [] OTHER -> TRUE

\* Property reads on a body: a string body has none of the report's fields.
Processed(b) == IsReport(b) /\ b.processed
Valid(b) == IsReport(b) /\ b.valid
Active(b) == IsReport(b) /\ b.active
Reviewed(b) == IsReport(b) /\ b.reviewed
Files(b) == IF IsReport(b) THEN b.files ELSE <<>>
HasFiles(b) == IsReport(b) /\ Len(b.files) > 0
AutomatedSigning(b) == IF IsReport(b) THEN b.automated_signing ELSE "undefined"
GuidOf(b) == IF IsReport(b) THEN b.guid ELSE Undefined
ValidationUrlOf(b) == IF IsReport(b) THEN b.validation_url ELSE Undefined

\* The number of characters of JSON.stringify(body): the fixed fields of a
\* report take about 300 characters and every file descriptor about 150
\* more; a string is its own text.
TextLength(b) ==
    CASE b.type = "report" -> 300 + 150 * Len(b.files)
      [] b.type = "string" -> IF b.text = "" THEN 0 ELSE 6
      [] OTHER -> 0

Min(a, b) == IF a < b THEN a ELSE b

\* formatResponse(): the text of the response, cut to its first maxLength
\* characters followed by "..." when it is longer.
formatResponse(response) ==
    [of |-> response,
     shown |-> Min(TextLength(response), maxLength),
     ellipsis |-> TextLength(response) > maxLength]

NullText == [type |-> "string", text |-> "[null]"]

\* ------------------------------------------------------------------ state

VARIABLES
    addon,               \* the server-side object this session's status URL names
    submit,              \* sign(): "none", "inflight" or "done" for the submit request
    waitCalls,           \* the statusUrl arguments waitForSignedAddon was called with
    promise,             \* the promise handed to the caller
    settleCalls,         \* every resolve()/reject() call made on it, in order
    abortTimeout,        \* the abort timer: state "unset", "pending", "fired", "cleared"
    statusCheckTimeout,  \* handle of the last next-poll timer armed (0: undefined)
    pollTimers,          \* the next-poll timers that are pending
    requests,            \* the status GETs in flight
    getCount,            \* number of status GETs issued so far
    lastStatus,          \* the last status body received
    received,            \* number of status bodies received (assignments to lastStatus)
    clearCalls,          \* every handle passed to _clearTimeout, in order
    progress,            \* the progress bar: "idle", "animating", "finished"
    signPromise,         \* the promise sign() returned ("unset" when sign() was not called)
    dlStatus,            \* checkSignedStatus' `status` while it awaits the download
    dlFiles,             \* the signedFiles argument of downloadSignedFiles
    dlCalls,             \* number of downloadSignedFiles invocations
    downloads,           \* one entry per download request issued, in order
    dlPromise,           \* downloadSignedFiles' promise: "none", "pending", "resolved", "rejected"
    uncaught,            \* an exception escaped an event handler
    setAbortCalls,       \* number of _setAbortTimeout calls
    requestValue,        \* the arguments of sign()'s .then handler while it runs
    dlValue,             \* what downloadSignedFiles' promise settled with
    clients,             \* the Client objects constructed (their fields), in order
    signArgs,            \* the arguments of the sign() call made in this step
    requestConfs,        \* the requests handed to the request module in this step
    cli,                 \* the signAddonAndExit() call: arguments and position
    exitCalls,           \* the codes systemProcess.exit was called with, in order
    dlFinished,          \* the downloads whose write stream finished, in that order
    debugging            \* debug(): the flag, the objects in memory, what was logged

vars == <<addon, submit, waitCalls, promise, settleCalls, abortTimeout, statusCheckTimeout,
          pollTimers, requests, getCount, lastStatus, received, clearCalls, progress,
          signPromise, dlStatus, dlFiles, dlCalls, downloads, dlPromise, uncaught,
          setAbortCalls, requestValue, dlValue, clients, signArgs, requestConfs,
          cli, exitCalls, dlFinished, debugging>>

\* The state as one record, so that a handler reads as the sequence of the
\* statements of its source.
Now ==
    [submit |-> submit, waitCalls |-> waitCalls, promise |-> promise,
     settleCalls |-> settleCalls, abortTimeout |-> abortTimeout,
     statusCheckTimeout |-> statusCheckTimeout, pollTimers |-> pollTimers,
     requests |-> requests, getCount |-> getCount, lastStatus |-> lastStatus,
     received |-> received,
     clearCalls |-> clearCalls, progress |-> progress, signPromise |-> signPromise,
     dlStatus |-> dlStatus, dlFiles |-> dlFiles, dlCalls |-> dlCalls, downloads |-> downloads, dlPromise |-> dlPromise,
     uncaught |-> uncaught, setAbortCalls |-> setAbortCalls,
     \* the arguments of sign()'s handler do not outlive it
     requestValue |-> Null, dlValue |-> dlValue,
     clients |-> clients, signArgs |-> Null, requestConfs |-> <<>>,
     cli |-> cli, exitCalls |-> exitCalls, dlFinished |-> dlFinished,
     debugging |-> debugging]

Becomes(s) ==
    /\ submit' = s.submit
    /\ waitCalls' = s.waitCalls
    /\ promise' = s.promise
    /\ settleCalls' = s.settleCalls
    /\ abortTimeout' = s.abortTimeout
    /\ statusCheckTimeout' = s.statusCheckTimeout
    /\ pollTimers' = s.pollTimers
    /\ requests' = s.requests
    /\ getCount' = s.getCount
    /\ lastStatus' = s.lastStatus
    /\ received' = s.received
    /\ clearCalls' = s.clearCalls
    /\ progress' = s.progress
    /\ signPromise' = s.signPromise
    /\ dlStatus' = s.dlStatus
    /\ dlFiles' = s.dlFiles
    /\ dlCalls' = s.dlCalls
    /\ downloads' = s.downloads
    /\ dlPromise' = s.dlPromise
    /\ uncaught' = s.uncaught
    /\ setAbortCalls' = s.setAbortCalls
    /\ requestValue' = s.requestValue
    /\ dlValue' = s.dlValue
    /\ clients' = s.clients
    /\ signArgs' = s.signArgs
    /\ requestConfs' = s.requestConfs
    /\ cli' = s.cli
    /\ exitCalls' = s.exitCalls
    /\ dlFinished' = s.dlFinished
    /\ debugging' = s.debugging

\* The current state is s.
Is(s) ==
    /\ submit = s.submit
    /\ waitCalls = s.waitCalls
    /\ promise = s.promise
    /\ settleCalls = s.settleCalls
    /\ abortTimeout = s.abortTimeout
    /\ statusCheckTimeout = s.statusCheckTimeout
    /\ pollTimers = s.pollTimers
    /\ requests = s.requests
    /\ getCount = s.getCount
    /\ lastStatus = s.lastStatus
    /\ received = s.received
    /\ clearCalls = s.clearCalls
    /\ progress = s.progress
    /\ signPromise = s.signPromise
    /\ dlStatus = s.dlStatus
    /\ dlFiles = s.dlFiles
    /\ dlCalls = s.dlCalls
    /\ downloads = s.downloads
    /\ dlPromise = s.dlPromise
    /\ uncaught = s.uncaught
    /\ setAbortCalls = s.setAbortCalls
    /\ requestValue = s.requestValue
    /\ dlValue = s.dlValue
    /\ clients = s.clients
    /\ signArgs = s.signArgs
    /\ requestConfs = s.requestConfs
    /\ cli = s.cli
    /\ exitCalls = s.exitCalls
    /\ dlFinished = s.dlFinished
    /\ debugging = s.debugging

\* ------------------------------------------------------- results and errors

SignResult(success, id, downloadedFiles, errorCode, errorDetails) ==
    [success |-> success, id |-> id, downloadedFiles |-> downloadedFiles,
     errorCode |-> errorCode, errorDetails |-> errorDetails]

NoCode == "null"

Err(name, detail) == [type |-> "error", name |-> name, detail |-> detail]

Pending == [state |-> "pending", value |-> Null]

\* Promise semantics: the first resolve() or reject() settles, later ones
\* are ignored.
resolve(s, value) ==
    [s EXCEPT !.settleCalls = Append(@, [op |-> "resolve", value |-> value]),
              !.promise = IF @.state = "pending"
                          THEN [state |-> "resolved", value |-> value] ELSE @]

reject(s, error) ==
    [s EXCEPT !.settleCalls = Append(@, [op |-> "reject", value |-> error]),
              !.promise = IF @.state = "pending"
                          THEN [state |-> "rejected", value |-> error] ELSE @]

\* ------------------------------------------------------------------- client

Str(text) == [type |-> "string", text |-> text]

\* The value of a number-valued option.
Num(n) == [type |-> "number", n |-> n]

\* An object-valued option and its own properties.
Obj(fields) == [type |-> "object", fields |-> fields]

\* The object without properties.
Empty == <<>>

\* { ...a, ...b }: the properties of both, those of b winning.
Spread(a, b) == b @@ a

\* The parameters of the constructor when only the credentials and the API
\* prefix are given.
DefaultParams ==
    [apiKey |-> Str("key"), apiSecret |-> Str("secret"),
     apiUrlPrefix |-> Str("https://amo/api"), apiJwtExpiresIn |-> Undefined,
     proxyServer |-> Undefined, requestConfig |-> Undefined]

\* The fields the constructor sets that the requests depend on.
Client(params) ==
    [apiKey |-> params.apiKey,
     apiSecret |-> params.apiSecret,
     apiUrlPrefix |-> params.apiUrlPrefix,
     apiJwtExpiresIn |-> IF params.apiJwtExpiresIn.type = "undefined"
                         THEN defaultApiJwtExpiresIn ELSE params.apiJwtExpiresIn.n,
     proxyServer |-> params.proxyServer,
     requestConfig |-> IF Truthy(params.requestConfig)
                       THEN params.requestConfig.fields ELSE Empty]

\* new Client(params)
new(s, params) == [s EXCEPT !.clients = Append(@, Client(params))]

\* The client the methods run on.
This(s) == s.clients[Len(s.clients)]

\* encodeURIComponent(v): the escaped form of v, not v itself.
encodeURIComponent(v) == [type |-> "encoded", of |-> v]

\* URLs the server sends for the signed files begin with http.
MatchesHttp(urlString) == urlString.type = "download_url"

absoluteURL(client, urlString) ==
    IF ~MatchesHttp(urlString)
    THEN [type |-> "absolute", prefix |-> client.apiUrlPrefix, rest |-> urlString]
    ELSE urlString

\* jwt.sign(payload, secret, options)
jwtSign(payload, secret, options) ==
    [type |-> "jwt", payload |-> payload, secret |-> secret, options |-> options]

DefaultHeaders(authToken) ==
    [Authorization |-> [scheme |-> "JWT", token |-> authToken],
     Accept |-> "application/json"]

\* configureRequest with the headers of the configuration dropped.
configureRequest_DefaultHeadersOnly(client, config) ==
    LET requestConf == Spread(client.requestConfig, config)
        withUrl == Spread(requestConf, [url |-> absoluteURL(client, requestConf.url)])
        withProxy == IF Truthy(client.proxyServer)
                     THEN Spread(withUrl, [proxy |-> client.proxyServer])
                     ELSE withUrl
        authToken == jwtSign([iss |-> client.apiKey], client.apiSecret,
                             [algorithm |-> "HS256",
                              expiresIn |-> client.apiJwtExpiresIn])
        withTimeout == Spread(withProxy,
                              [timeout |-> client.apiJwtExpiresIn * 1000 + 500])
    IN Spread(withTimeout, [headers |-> DefaultHeaders(authToken)])

\* configureRequest(config), called with a URL: the client's requestConfig
\* overlaid with config, the URL made absolute, the proxy, the timeout, and
\* the default headers overlaid with the configuration's own.
configureRequest(client, config) ==
    LET requestConf == Spread(client.requestConfig, config)
        withUrl == Spread(requestConf, [url |-> absoluteURL(client, requestConf.url)])
        withProxy == IF Truthy(client.proxyServer)
                     THEN Spread(withUrl, [proxy |-> client.proxyServer])
                     ELSE withUrl
        authToken == jwtSign([iss |-> client.apiKey], client.apiSecret,
                             [algorithm |-> "HS256",
                              expiresIn |-> client.apiJwtExpiresIn])
        withTimeout == Spread(withProxy,
                              [timeout |-> client.apiJwtExpiresIn * 1000 + 500])
        ownHeaders == IF "headers" \in DOMAIN requestConf
                      THEN requestConf.headers ELSE Empty
    IN Spread(withTimeout,
              [headers |-> Spread(DefaultHeaders(authToken), ownHeaders)])

\* The request module is called: by request() through this._request[method]
\* with configureRequest(config), by download() with the configuration it
\* got from configureRequest.
issue(s, via, requestConf) ==
    [s EXCEPT !.requestConfs = Append(@, [via |-> via, conf |-> requestConf])]

\* ------------------------------------------------------ timers and progress

AbortHandle == [timer |-> "abort", handle |-> 1]
PollHandle(n) == [timer |-> "poll", handle |-> n]

\* clearTimeout(handle): cancels the timer if it is still pending; clearing
\* undefined (poll handle 0), a fired or a cleared timer does nothing.
_clearTimeout(s, h) ==
    [s EXCEPT !.clearCalls = Append(@, h),
              !.abortTimeout.state = IF h.timer = "abort" /\ @ = "pending"
                                     THEN "cleared" ELSE @,
              !.pollTimers = IF h.timer = "poll"
                             THEN {t \in @ : t.handle # h.handle} ELSE @]

\* statusCheckTimeout = _setStatusCheckTimeout(fn, this.statusCheckInterval)
_setStatusCheckTimeout(s, fn) ==
    [s EXCEPT !.statusCheckTimeout = @ + 1,
              !.pollTimers = @ \cup {[handle |-> s.statusCheckTimeout + 1, fn |-> fn,
                                      delay |-> thisStatusCheckInterval]}]

\* PseudoProgress.animate() starts the interval, finish() clears it.
animate(s) == [s EXCEPT !.progress = "animating"]
finish(s) == [s EXCEPT !.progress = "finished"]

\* ------------------------------------------------------------ HTTP layer

\* The status codes of the model: the edges of 200..299 and of the
\* statuses sign() accepts, and a server error.
HttpStatuses == {199, 200, 201, 202, 203, 299, 300, 500}

IsBadStatus(code) == code > 299 \/ code < 200

\* What the `request` module hands to its callback for a status GET on
\* object pk: a transport error, or a response.  The body of a response
\* whose status is outside 200..299 is never looked at, and the status of
\* one inside is not, so the model sends every body with 200 only.
StatusOutcomes(pk) ==
    {[kind |-> "error"]}
    \cup [kind : {"response"}, statusCode : HttpStatuses \ {200},
          body : {[type |-> "string", text |-> ""]}]
    \cup [kind : {"response"}, statusCode : {200}, body : StatusBodies(pk)]

\* Client.request(): rejects with the transport error, throws on a status
\* outside 200..299 when throwOnBadResponse is set, else returns the body.
request(outcome, throwOnBadResponse) ==
    IF outcome.kind = "error"
    THEN [ok |-> FALSE, error |-> Err("RequestError", Null)]
    ELSE IF throwOnBadResponse /\ IsBadStatus(outcome.statusCode)
    THEN [ok |-> FALSE, error |-> Err("Received bad response", [statusCode |-> outcome.statusCode])]
    ELSE [ok |-> TRUE, statusCode |-> outcome.statusCode, body |-> outcome.body]

\* The statusUrl of the running waitForSignedAddon call.
statusUrl(s) == s.waitCalls[Len(s.waitCalls)]

\* this.get({ url: statusUrl }) as called by fn: configureRequest() throws
\* when the URL is missing, otherwise one GET is in flight.
CanGet(s) == statusUrl(s).type # "undefined"
get(s, fn) ==
    LET s1 == issue(s, "get", configureRequest(This(s), [url |-> statusUrl(s)]))
    IN [s1 EXCEPT !.getCount = @ + 1,
                  !.requests = @ \cup {[n |-> s.getCount + 1, fn |-> fn]}]

\* ------------------------------------------------------ downloadSignedFiles

\* path.join(this.downloadDir, getUrlBasename(fileUrl))
FileName(fileUrl) == [type |-> "path", dir |-> "downloadDir", basename |-> fileUrl]

\* download(fileUrl) hands the request module a configured GET.
download(client, fileUrl) ==
    [via |-> "download",
     conf |-> configureRequest(client, [method |-> "GET", url |-> fileUrl,
                                        followRedirect |-> TRUE])]

IsSigned_Any(file) == TRUE

IsSigned(file) == file.signed

\* downloadSignedFiles succeeding with no file when nothing is signed.
downloadSignedFiles_EmptyOk(s, signedFiles) ==
    LET accepted == SelectSeq(signedFiles, IsSigned)
    IN [s EXCEPT !.requestConfs = @ \o [i \in 1..Len(accepted) |->
                                           download(This(s), accepted[i].download_url)],
                 !.dlCalls = @ + 1,
                 !.dlFiles = [type |-> "files", list |-> signedFiles],
                 !.downloads = [i \in 1..Len(accepted) |->
                                   [url |-> accepted[i].download_url, state |-> "pending"]],
                 !.dlPromise = IF Len(accepted) > 0 THEN "pending" ELSE "resolved",
                 !.dlValue = IF Len(accepted) > 0 THEN Null
                             ELSE SignResult(TRUE, Null,
                                             [type |-> "paths", list |-> <<>>],
                                             "null", Null)]

\* The synchronous part of downloadSignedFiles(signedFiles): one download
\* (one request) per signed entry, in order; with none it throws, which
\* rejects its promise at once.
downloadSignedFiles(s, signedFiles) ==
    LET accepted == SelectSeq(signedFiles, IsSigned)
    IN [s EXCEPT !.requestConfs = @ \o [i \in 1..Len(accepted) |->
                                           download(This(s), accepted[i].download_url)],
                 !.dlCalls = @ + 1,
                 !.dlFiles = [type |-> "files", list |-> signedFiles],
                 !.downloads = [i \in 1..Len(accepted) |->
                                   [url |-> accepted[i].download_url, state |-> "pending"]],
                 !.dlPromise = IF Len(accepted) > 0 THEN "pending" ELSE "rejected",
                 !.dlValue = IF Len(accepted) > 0 THEN Null
                             ELSE Err("no signed files were found", Null)]

\* The result listing the files in the order in which they finished.
DownloadResult_FinishOrder(s) ==
    SignResult(TRUE, Null,
               [type |-> "paths",
                list |-> [k \in 1..Len(s.dlFinished) |->
                             FileName(s.downloads[s.dlFinished[k]].url)]],
               NoCode, Null)

\* The value downloadSignedFiles returns once Promise.all(allDownloads) has
\* resolved: the file names in the order of allDownloads.
DownloadResult(s) ==
    SignResult(TRUE, Null,
               [type |-> "paths",
                list |-> [i \in 1..Len(s.downloads) |-> FileName(s.downloads[i].url)]],
               NoCode, Null)

\* ------------------------------------------------------- waitForSignedAddon

catchBlock_NoClear(s, err) == reject(s, err)

\* The catch blocks of checkSignedStatus and checkValidationStatus.
catchBlock(s, err) == reject(_clearTimeout(s, AbortHandle), err)

canBeAutoSigned(status) == AutomatedSigning(status) = "true"

signedAndReady_NoFilesCheck(status) ==
    Valid(status) /\ Active(status) /\ Reviewed(status)

signedAndReady(status) ==
    Valid(status) /\ Active(status) /\ Reviewed(status) /\ HasFiles(status)

requiresManualReview(status) == Valid(status) /\ ~canBeAutoSigned(status)

NeedsReviewResult == SignResult(FALSE, Null, Null, "ADDON_NOT_AUTO_SIGNED", Null)

ValidationFailedResult_KeepsId(status) ==
    SignResult(FALSE, GuidOf(status), Null, "VALIDATION_FAILED", ValidationUrlOf(status))

ValidationFailedResult(status) ==
    SignResult(FALSE, Null, Null, "VALIDATION_FAILED", ValidationUrlOf(status))

\* checkSignedStatus() up to its first await.
checkSignedStatus(s) ==
    IF CanGet(s) THEN get(s, "signing")
    ELSE catchBlock(s, Err("request URL was not specified", Null))

\* checkSignedStatusResume with the success branch taken before the
\* manual-review branch.
checkSignedStatusResume_SuccessFirst(s, r) ==
    IF ~r.ok THEN catchBlock(s, r.error)
    ELSE LET status == r.body
             s1 == [s EXCEPT !.lastStatus = status, !.received = @ + 1]
         IN IF signedAndReady(status) \/ requiresManualReview(status)
            THEN LET s2 == _clearTimeout(finish(s1), AbortHandle)
                 IN IF signedAndReady(status)
                    THEN LET s3 == downloadSignedFiles([s2 EXCEPT !.dlStatus = status],
                                                       Files(status))
                         IN IF s3.dlPromise = "rejected"
                            THEN catchBlock(s3, Err("no signed files were found", Null))
                            ELSE s3
                    ELSE resolve(s2, NeedsReviewResult)
            ELSE _setStatusCheckTimeout(s1, "signing")

\* checkSignedStatusResume starting the downloads with the abort timer still
\* armed.
checkSignedStatusResume_AbortArmedInDownload(s, r) ==
    IF ~r.ok THEN catchBlock(s, r.error)
    ELSE LET status == r.body
             s1 == [s EXCEPT !.lastStatus = status, !.received = @ + 1]
         IN IF signedAndReady(status) \/ requiresManualReview(status)
            THEN IF requiresManualReview(status)
                 THEN resolve(_clearTimeout(finish(s1), AbortHandle), NeedsReviewResult)
                 ELSE LET s3 == downloadSignedFiles([finish(s1) EXCEPT !.dlStatus = status],
                                                    Files(status))
                      IN IF s3.dlPromise = "rejected"
                         THEN catchBlock(s3, Err("no signed files were found", Null))
                         ELSE s3
            ELSE _setStatusCheckTimeout(s1, "signing")

\* checkSignedStatusResume arming another poll after a manual-review report.
checkSignedStatusResume_PollsAfterReview(s, r) ==
    IF ~r.ok THEN catchBlock(s, r.error)
    ELSE LET status == r.body
             s1 == [s EXCEPT !.lastStatus = status, !.received = @ + 1]
         IN IF signedAndReady(status) \/ requiresManualReview(status)
            THEN LET s2 == _clearTimeout(finish(s1), AbortHandle)
                 IN IF requiresManualReview(status)
                    THEN _setStatusCheckTimeout(resolve(s2, NeedsReviewResult), "signing")
                    ELSE LET s3 == downloadSignedFiles([s2 EXCEPT !.dlStatus = status],
                                                       Files(status))
                         IN IF s3.dlPromise = "rejected"
                            THEN catchBlock(s3, Err("no signed files were found", Null))
                            ELSE s3
            ELSE _setStatusCheckTimeout(s1, "signing")

\* checkSignedStatus() from the completion of its GET (result r) to its
\* next await or its end.
checkSignedStatusResume(s, r) ==
    IF ~r.ok THEN catchBlock(s, r.error)
    ELSE LET status == r.body
             s1 == [s EXCEPT !.lastStatus = status, !.received = @ + 1]
         IN IF signedAndReady(status) \/ requiresManualReview(status)
            THEN LET s2 == _clearTimeout(finish(s1), AbortHandle)
                 IN IF requiresManualReview(status)
                    THEN resolve(s2, NeedsReviewResult)
                    ELSE LET s3 == downloadSignedFiles([s2 EXCEPT !.dlStatus = status],
                                                       Files(status))
                         IN IF s3.dlPromise = "rejected"
                            THEN catchBlock(s3, Err("no signed files were found", Null))
                            ELSE s3
            ELSE _setStatusCheckTimeout(s1, "signing")

checkSignedStatusDownloaded_NoId(s) ==
    IF s.dlPromise = "resolved" THEN resolve(s, DownloadResult(s)) ELSE s

\* checkSignedStatus() from the settlement of the awaited download promise.
checkSignedStatusDownloaded(s) ==
    IF s.dlPromise = "resolved"
    THEN resolve(s, [DownloadResult(s) EXCEPT !.id = GuidOf(s.dlStatus)])
    ELSE s

\* checkValidationStatus() up to its first await.
checkValidationStatus(s) ==
    IF CanGet(s) THEN get(s, "validation")
    ELSE catchBlock(s, Err("request URL was not specified", Null))

\* checkValidationStatusResume deciding by `valid` without looking at
\* `processed`.
checkValidationStatusResume_ValidOnly(s, r) ==
    IF ~r.ok THEN catchBlock(s, r.error)
    ELSE LET status == r.body
             s1 == [s EXCEPT !.lastStatus = status, !.received = @ + 1]
             s2 == animate(finish(s1))
         IN IF Valid(status)
            THEN checkSignedStatus(s2)
            ELSE resolve(_clearTimeout(s2, AbortHandle), ValidationFailedResult(status))

\* checkValidationStatusResume arming two timers for the next poll.
checkValidationStatusResume_ArmsTwice(s, r) ==
    IF ~r.ok THEN catchBlock(s, r.error)
    ELSE LET status == r.body
             s1 == [s EXCEPT !.lastStatus = status, !.received = @ + 1]
         IN IF Processed(status)
            THEN LET s2 == animate(finish(s1))
                 IN IF Valid(status)
                    THEN checkSignedStatus(s2)
                    ELSE resolve(_clearTimeout(s2, AbortHandle),
                                 ValidationFailedResult(status))
            ELSE _setStatusCheckTimeout(_setStatusCheckTimeout(s1, "validation"),
                                        "validation")

\* checkValidationStatusResume arming a validation poll while it hands over
\* to checkSignedStatus.
checkValidationStatusResume_PollsOn(s, r) ==
    IF ~r.ok THEN catchBlock(s, r.error)
    ELSE LET status == r.body
             s1 == [s EXCEPT !.lastStatus = status, !.received = @ + 1]
         IN IF Processed(status)
            THEN LET s2 == animate(finish(s1))
                 IN IF Valid(status)
                    THEN _setStatusCheckTimeout(checkSignedStatus(s2), "validation")
                    ELSE resolve(_clearTimeout(s2, AbortHandle),
                                 ValidationFailedResult(status))
            ELSE _setStatusCheckTimeout(s1, "validation")

\* checkValidationStatus() from the completion of its GET to its end.
checkValidationStatusResume(s, r) ==
    IF ~r.ok THEN catchBlock(s, r.error)
    ELSE LET status == r.body
             s1 == [s EXCEPT !.lastStatus = status, !.received = @ + 1]
         IN IF Processed(status)
            THEN LET s2 == animate(finish(s1))
                 IN IF Valid(status)
                    THEN checkSignedStatus(s2)
                    ELSE resolve(_clearTimeout(s2, AbortHandle),
                                 ValidationFailedResult(status))
            ELSE _setStatusCheckTimeout(s1, "validation")

\* The abort callback leaving the pending poll timer alone.
abortCallback_NoPollClear(s) ==
    reject(finish(s), Err("Signing took too long to complete",
                          formatResponse(IF Truthy(s.lastStatus) THEN s.lastStatus
                                         ELSE NullText)))

abortCallback_NoFallback(s) ==
    LET s1 == _clearTimeout(finish(s), PollHandle(s.statusCheckTimeout))
    IN reject(s1, Err("Signing took too long to complete", formatResponse(s.lastStatus)))

\* The abort timer's callback.
abortCallback(s) ==
    LET s1 == _clearTimeout(finish(s), PollHandle(s.statusCheckTimeout))
    IN reject(s1, Err("Signing took too long to complete",
                      formatResponse(IF Truthy(s.lastStatus) THEN s.lastStatus
                                     ELSE NullText)))

\* The promise executor of waitForSignedAddon(url).
waitForSignedAddon(s, url) ==
    LET s1 == [s EXCEPT !.waitCalls = Append(@, url),
                        !.promise = Pending,
                        !.setAbortCalls = @ + 1,
                        !.abortTimeout = [state |-> "pending",
                                          delay |-> thisStatusCheckTimeout]]
    IN checkValidationStatus(animate(s1))

\* --------------------------------------------------------------------- sign

StatusUrl == [type |-> "url", path |-> "/status/1"]

\* The parsed body of the submit response: its error and url fields, either
\* of which may be missing; an error text may be empty.
SubmitBodies ==
    [type : {"body"},
     error : {Undefined, [type |-> "string", text |-> ""],
              [type |-> "string", text |-> "version already exists"]},
     url : {Undefined, StatusUrl}]

SubmitOutcomes ==
    {[kind |-> "error"]}
    \cup [kind : {"response"}, statusCode : HttpStatuses, body : SubmitBodies]

acceptableStatuses_Any2xx == {200, 201, 202, 203, 299}

acceptableStatuses == {200, 201, 202}

ServerFailureResult_NoDetails(error) ==
    SignResult(FALSE, Null, Null, "SERVER_FAILURE", Null)

ServerFailureResult(error) == SignResult(FALSE, Null, Null, "SERVER_FAILURE", error)

\* signResume looking at the status code before the error field.
signResume_StatusFirst(s, r) ==
    LET s0 == [s EXCEPT !.submit = "done"]
    IN IF ~r.ok
       THEN [s0 EXCEPT !.signPromise = [state |-> "rejected", value |-> r.error]]
       ELSE LET response == r.body
            IN IF r.statusCode \notin acceptableStatuses
               THEN [s0 EXCEPT !.signPromise =
                        [state |-> "rejected",
                         value |-> Err("Received bad response from the server",
                                       [statusCode |-> r.statusCode])]]
               ELSE IF Truthy(response.error)
               THEN [s0 EXCEPT !.signPromise =
                        [state |-> "resolved",
                         value |-> ServerFailureResult(response.error)]]
               ELSE waitForSignedAddon(s0, response.url)

\* signResume reporting every refused submit as a server failure.
signResume_AlwaysServerFailure(s, r) ==
    LET s0 == [s EXCEPT !.submit = "done"]
    IN IF ~r.ok
       THEN [s0 EXCEPT !.signPromise = [state |-> "rejected", value |-> r.error]]
       ELSE LET response == r.body
            IN IF r.statusCode \notin acceptableStatuses \/ Truthy(response.error)
               THEN [s0 EXCEPT !.signPromise =
                        [state |-> "resolved",
                         value |-> ServerFailureResult(response.error)]]
               ELSE waitForSignedAddon(s0, response.url)

\* sign() from the completion of the submit request (result r): the
\* .then() handler, or the rejection passing through.  The promise sign()
\* returned follows whatever the handler returns or throws.
signResume(s, r) ==
    LET s0 == [s EXCEPT !.submit = "done"]
    IN IF ~r.ok
       THEN [s0 EXCEPT !.signPromise = [state |-> "rejected", value |-> r.error]]
       ELSE LET response == r.body
                receivedError == Truthy(response.error)
            IN IF r.statusCode \notin acceptableStatuses \/ receivedError
               THEN IF Truthy(response.error)
                    THEN [s0 EXCEPT !.signPromise =
                             [state |-> "resolved",
                              value |-> ServerFailureResult(response.error)]]
                    ELSE [s0 EXCEPT !.signPromise =
                             [state |-> "rejected",
                              value |-> Err("Received bad response from the server",
                                            [statusCode |-> r.statusCode])]]
               ELSE waitForSignedAddon(s0, response.url)

\* A promise resolved with another promise takes that promise's outcome.
adopt(s) ==
    IF s.signPromise.state = "pending" /\ Len(s.waitCalls) > 0
       /\ s.promise.state # "pending"
    THEN [s EXCEPT !.signPromise = s.promise]
    ELSE s

\* ------------------------------------------------------------------ actions

Unset == [state |-> "unset", value |-> Null]

\* signAddonAndExit has not been called.
NotCalled ==
    [at |-> "none", options |-> Null, throwError |-> FALSE, promise |-> Unset,
     error |-> Null]

\* The state before any call.
Blank ==
    [submit |-> "none", waitCalls |-> <<>>, promise |-> Unset, settleCalls |-> <<>>,
     abortTimeout |-> [state |-> "unset", delay |-> 0], statusCheckTimeout |-> 0,
     pollTimers |-> {}, requests |-> {}, getCount |-> 0, lastStatus |-> Undefined,
     received |-> 0,
     clearCalls |-> <<>>, progress |-> "idle", signPromise |-> Unset,
     dlStatus |-> Undefined, dlFiles |-> Null, dlCalls |-> 0, downloads |-> <<>>,
     dlPromise |-> "none", uncaught |-> FALSE, setAbortCalls |-> 0,
     requestValue |-> Null, dlValue |-> Null, clients |-> <<>>, signArgs |-> Null,
     requestConfs |-> <<>>,
     cli |-> NotCalled, exitCalls |-> <<>>,
     dlFinished |-> <<>>,
     debugging |-> [debugLogging |-> FALSE, given |-> <<>>, heap |-> <<>>,
                    logged |-> <<>>, calls |-> 0]]

\* What callers pass to sign(): a guid that is missing, empty or set, a
\* channel likewise, and a version and a path.
SignArgs ==
    [guid : {Undefined, Str(""), Str("a@b")},
     version : {Str("1.0")},
     channel : {Undefined, Str(""), Str("listed")},
     xpiPath : {Str("addon.xpi")}]

\* this._fs.createReadStream(xpiPath)
createReadStream(xpiPath) == [type |-> "stream", of |-> xpiPath]

\* sign() sending the channel of a new add-on too.
sign_ChannelAlways(s, args) ==
    LET upload == [upload |-> createReadStream(args.xpiPath)]
        channel == IF Truthy(args.channel) THEN [channel |-> args.channel] ELSE Empty
        formData == IF Truthy(args.guid)
                    THEN Spread(upload, channel)
                    ELSE Spread(Spread(upload, [version |-> args.version]), channel)
        addonUrl == IF Truthy(args.guid)
                    THEN <<Str("/addons/"), encodeURIComponent(args.guid),
                           Str("/versions/"), encodeURIComponent(args.version),
                           Str("/")>>
                    ELSE <<Str("/addons/")>>
        httpMethod == IF Truthy(args.guid) THEN "put" ELSE "post"
        config == [url |-> [type |-> "path", parts |-> addonUrl], formData |-> formData]
    IN [issue(s, httpMethod, configureRequest(This(s), config))
          EXCEPT !.submit = "inflight", !.signPromise = Pending, !.signArgs = args]

\* sign() up to the submit request being in flight: PUT to the URL of the
\* add-on and version when a guid is given, else POST to the generic URL.
sign(s, args) ==
    LET upload == [upload |-> createReadStream(args.xpiPath)]
        formData == IF Truthy(args.guid)
                    THEN IF Truthy(args.channel)
                         THEN Spread(upload, [channel |-> args.channel])
                         ELSE upload
                    ELSE Spread(upload, [version |-> args.version])
        addonUrl == IF Truthy(args.guid)
                    THEN <<Str("/addons/"), encodeURIComponent(args.guid),
                           Str("/versions/"), encodeURIComponent(args.version),
                           Str("/")>>
                    ELSE <<Str("/addons/")>>
        httpMethod == IF Truthy(args.guid) THEN "put" ELSE "post"
        config == [url |-> [type |-> "path", parts |-> addonUrl], formData |-> formData]
    IN [issue(s, httpMethod, configureRequest(This(s), config))
          EXCEPT !.submit = "inflight", !.signPromise = Pending, !.signArgs = args]

\* A client made with the default parameters, and sign() called on it.
Init ==
    /\ addon \in Pks
    /\ \E args \in SignArgs : Is(sign(new(Blank, DefaultParams), args))

\* The submit request completes.
SubmitResponse ==
    /\ submit = "inflight"
    /\ UNCHANGED addon
    /\ \E o \in SubmitOutcomes :
          Becomes([adopt(signResume(Now, request(o, FALSE))) EXCEPT !.requestValue = o])

\* A status GET completes and the function awaiting it resumes.
StatusResponse ==
    \E q \in requests : \E o \in StatusOutcomes(addon) :
        LET s == [Now EXCEPT !.requests = @ \ {q}]
            r == request(o, TRUE)
        IN /\ UNCHANGED addon
           /\ Becomes(adopt(IF q.fn = "validation"
                            THEN checkValidationStatusResume(s, r)
                            ELSE checkSignedStatusResume(s, r)))

\* A pending next-poll timer fires and calls the function it was armed with.
PollTimerFires ==
    /\ statusCheckTimeout <= MaxPolls
    /\ \E t \in pollTimers :
        LET s == [Now EXCEPT !.pollTimers = @ \ {t}]
        IN /\ UNCHANGED addon
           /\ Becomes(adopt(IF t.fn = "validation"
                            THEN checkValidationStatus(s)
                            ELSE checkSignedStatus(s)))

\* The pending abort timer fires.
AbortTimerFires ==
    /\ abortTimeout.state = "pending"
    /\ UNCHANGED addon
    /\ Becomes(adopt(abortCallback([Now EXCEPT !.abortTimeout.state = "fired"])))

\* The code awaiting downloadSignedFiles' promise, once it has settled:
\* checkSignedStatus when waitForSignedAddon made the call, nothing of the
\* client when its caller did.
awaitedDownload(s) ==
    IF Len(s.waitCalls) = 0 THEN s
    ELSE IF s.dlPromise = "rejected" THEN catchBlock(s, s.dlValue)
    ELSE checkSignedStatusDownloaded(s)

\* downloadSettled resolving as soon as one download has finished.
downloadSettled_FirstFinish(s, err) ==
    IF s.dlPromise # "pending" THEN s
    ELSE IF \E i \in 1..Len(s.downloads) : s.downloads[i].state = "rejected"
    THEN awaitedDownload([s EXCEPT !.dlPromise = "rejected", !.dlValue = err])
    ELSE IF \E i \in 1..Len(s.downloads) : s.downloads[i].state = "finished"
    THEN awaitedDownload([s EXCEPT !.dlPromise = "resolved",
                                   !.dlValue = DownloadResult(s)])
    ELSE s

\* Promise.all(allDownloads) and the code awaiting it, after download i has
\* settled: the first rejection rejects downloadSignedFiles, which lands in
\* checkSignedStatus' catch block; the last completion resolves it.
downloadSettled(s, err) ==
    IF s.dlPromise # "pending" THEN s
    ELSE IF \E i \in 1..Len(s.downloads) : s.downloads[i].state = "rejected"
    THEN awaitedDownload([s EXCEPT !.dlPromise = "rejected", !.dlValue = err])
    ELSE IF \A i \in 1..Len(s.downloads) : s.downloads[i].state = "finished"
    THEN awaitedDownload([s EXCEPT !.dlPromise = "resolved",
                                   !.dlValue = DownloadResult(s)])
    ELSE s

\* The write stream of download i emits finish.
DownloadFinish ==
    \E i \in 1..Len(downloads) :
        /\ downloads[i].state = "pending"
        /\ UNCHANGED addon
        /\ Becomes(adopt(downloadSettled([Now EXCEPT !.downloads[i].state = "finished",
                                                     !.dlFinished = Append(@, i)],
                                         Null)))

\* The request or the write stream of download i emits error.
DownloadError ==
    \E i \in 1..Len(downloads) :
        /\ downloads[i].state = "pending"
        /\ UNCHANGED addon
        /\ Becomes(adopt(downloadSettled([Now EXCEPT !.downloads[i].state = "rejected"],
                                         Err("download error", downloads[i].url))))

\* Download i gets a response with a status outside 200..299 and the
\* response handler throws.  When the request emits the event while the
\* promise executor is still running, the throw rejects the download;
\* emitted from the event loop, it is an uncaught exception and the
\* download never settles.
DownloadBadStatus ==
    \E i \in 1..Len(downloads) : \E code \in {c \in HttpStatuses : c < 200 \/ c >= 300} :
      \E inExecutor \in BOOLEAN :
        /\ downloads[i].state = "pending"
        /\ UNCHANGED addon
        /\ IF inExecutor
           THEN Becomes(adopt(downloadSettled(
                    [Now EXCEPT !.downloads[i].state = "rejected"],
                    Err("Got a bad response when downloading",
                        [url |-> downloads[i].url, statusCode |-> code]))))
           ELSE Becomes([Now EXCEPT !.downloads[i].state = "thrown", !.uncaught = TRUE])

Next ==
    \/ SubmitResponse
    \/ StatusResponse
    \/ PollTimerFires
    \/ AbortTimerFires
    \/ DownloadFinish
    \/ DownloadError
    \/ DownloadBadStatus

Spec == Init /\ [][Next]_vars

\* A caller of the client calls downloadSignedFiles() itself, on a fresh
\* client, with any list of at most MaxDlFiles file descriptors.
DlFileLists ==
    {FilesOf(1, flags) : flags \in UNION {[1..n -> BOOLEAN] : n \in 0..MaxDlFiles}}

DlInit == addon = 1 /\ Is(new(Blank, DefaultParams))

DlCall ==
    /\ submit = "none"
    /\ dlCalls = 0
    /\ UNCHANGED addon
    /\ \E files \in DlFileLists : Becomes(downloadSignedFiles(Now, files))

DlNext ==
    \/ DlCall
    \/ DownloadFinish
    \/ DownloadError
    \/ DownloadBadStatus

DlSpec == DlInit /\ [][DlNext]_vars

\* The parameters a caller constructs a client with: a token lifetime that
\* is left out or given, a proxy or none, and a requestConfig that is left
\* out, or brings headers of its own, or a timeout and an Authorization.
ClientParams ==
    [apiKey : {Str("key")}, apiSecret : {Str("secret")},
     apiUrlPrefix : {Str("https://amo/api")},
     apiJwtExpiresIn : {Undefined, Num(1), Num(900)},
     proxyServer : {Undefined, Str("http://proxy")},
     requestConfig : {Undefined,
                      Obj([headers |-> [XCustom |-> "thing"]]),
                      Obj([headers |-> [Accept |-> "text/html"]]),
                      Obj([timeout |-> 1,
                           headers |-> [Authorization |->
                                           [scheme |-> "Basic", token |-> Null]]])}]

\* A caller constructs a client with any of these parameters and calls its
\* methods itself: sign(), waitForSignedAddon() and downloadSignedFiles().
ReqInit == addon = 1 /\ \E params \in ClientParams : Is(new(Blank, params))

ReqSign ==
    /\ submit = "none"
    /\ UNCHANGED addon
    /\ \E args \in SignArgs : Becomes(sign(Now, args))

ReqWait ==
    /\ Len(waitCalls) = 0
    /\ UNCHANGED addon
    /\ Becomes(waitForSignedAddon(Now, StatusUrl))

ReqDownload ==
    /\ dlCalls = 0
    /\ UNCHANGED addon
    /\ \E files \in DlFileLists : Becomes(downloadSignedFiles(Now, files))

ReqNext ==
    \/ ReqSign
    \/ ReqWait
    \/ ReqDownload

ReqSpec == ReqInit /\ [][ReqNext]_vars

\* ------------------------------------------------------------ signAddonAndExit

\* The options of signAddon the outcome depends on: each required one empty
\* or set, the id missing, empty or set, a channel or none; the optional
\* ones are left out.
Options ==
    [xpiPath : {Str(""), Str("addon.xpi")},
     version : {Undefined, Str("1.0")},
     apiSecret : {Str(""), Str("secret")},
     apiKey : {Undefined, Str("key")},
     id : {Undefined, Str(""), Str("a@b")},
     channel : {Undefined, Str("listed")},
     apiUrlPrefix : {Undefined},
     apiJwtExpiresIn : {Undefined},
     apiProxy : {Undefined},
     apiRequestConfig : {Undefined}]

\* The order in which signAddon looks at its required arguments.
RequiredArguments == <<"xpiPath", "version", "apiSecret", "apiKey">>

\* The required arguments and the id, as the signAddon of src/index.js.
RequiredArguments_WithId == <<"xpiPath", "id", "version", "apiSecret", "apiKey">>

reportEmpty(name) == Err("required argument was empty", Str(name))

\* What awaiting fs.stat(xpiPath) gives: a rejection, or stats whose isFile
\* is truthy or not.
StatOutcomes ==
    {[kind |-> "error", isFile |-> FALSE]} \cup [kind : {"stats"}, isFile : BOOLEAN]

\* The settled values of the promise client.sign() returns: AMOClient is a
\* parameter of signAddon, and its sign() resolves with a result whose
\* success is true or false, or rejects.
SignOutcomes ==
    {[state |-> "resolved", value |-> SignResult(TRUE, Guid(1), Null, NoCode, Null)],
     [state |-> "resolved",
      value |-> SignResult(FALSE, Null, Null, "SERVER_FAILURE", Null)],
     [state |-> "resolved",
      value |-> SignResult(FALSE, Null, Null, "VALIDATION_FAILED", Null)],
     [state |-> "rejected", value |-> Err("RequestError", Null)]}

signAddonBegin(s, options, required) ==
    LET empty == SelectSeq(required, LAMBDA name : ~Truthy(options[name]))
    IN IF Len(empty) > 0
       THEN [s EXCEPT !.cli.promise = [state |-> "rejected",
                                       value |-> reportEmpty(Head(empty))]]
       ELSE [s EXCEPT !.cli.promise = Pending, !.cli.at = "stat"]

signAddon_IdRequired(s, options) == signAddonBegin(s, options, RequiredArguments_WithId)

\* signAddon up to its first await: the first empty required argument is
\* reported, else fs.stat(xpiPath) is awaited.
signAddon(s, options) == signAddonBegin(s, options, RequiredArguments)

\* signAddon from the await of fs.stat on: an error with the file is
\* reported, else the client is constructed and its sign() called.
signAddonStat(s, stats) ==
    LET options == s.cli.options
    IN IF stats.kind = "error" \/ ~stats.isFile
       THEN [s EXCEPT !.cli.promise = [state |-> "rejected",
                                       value |-> Err("error with", options.xpiPath)]]
       ELSE LET params ==
                    [apiKey |-> options.apiKey,
                     apiSecret |-> options.apiSecret,
                     apiUrlPrefix |-> IF options.apiUrlPrefix.type = "undefined"
                                      THEN Str("https://addons.mozilla.org/api/v4")
                                      ELSE options.apiUrlPrefix,
                     apiJwtExpiresIn |-> options.apiJwtExpiresIn,
                     proxyServer |-> options.apiProxy,
                     requestConfig |-> options.apiRequestConfig]
                client == new(s, params)
            IN [sign(client, [xpiPath |-> options.xpiPath, guid |-> options.id,
                              version |-> options.version,
                              channel |-> options.channel])
                  EXCEPT !.cli.at = "signing"]

\* signAddonAndExit exiting with 0 whenever signAddon resolves.
signAddonAndExitResume_ExitZero(s) ==
    LET awaited == IF s.cli.at = "signing" THEN s.signPromise ELSE s.cli.promise
        s1 == [s EXCEPT !.cli.promise = awaited]
    IN IF awaited.state = "pending"
       THEN s1
       ELSE IF awaited.state = "resolved"
       THEN [s1 EXCEPT !.exitCalls = Append(@, 0), !.cli.at = "returned"]
       ELSE IF s.cli.throwError
       THEN [s1 EXCEPT !.cli.error = awaited.value, !.cli.at = "thrown"]
       ELSE [s1 EXCEPT !.exitCalls = Append(@, 1), !.cli.at = "returned"]

\* signAddonAndExit from `await signAddon(options)` on.  The promise of
\* signAddon follows the one client.sign() returned; while it is pending
\* nothing happens, a result exits with 0 or 1, and an error is rethrown or
\* exits with 1.
signAddonAndExitResume(s) ==
    LET awaited == IF s.cli.at = "signing" THEN s.signPromise ELSE s.cli.promise
        s1 == [s EXCEPT !.cli.promise = awaited]
    IN IF awaited.state = "pending"
       THEN s1
       ELSE IF awaited.state = "resolved"
       THEN [s1 EXCEPT !.exitCalls = Append(@, IF awaited.value.success THEN 0 ELSE 1),
                       !.cli.at = "returned"]
       ELSE IF s.cli.throwError
       THEN [s1 EXCEPT !.cli.error = awaited.value, !.cli.at = "thrown"]
       ELSE [s1 EXCEPT !.exitCalls = Append(@, 1), !.cli.at = "returned"]

signAddonAndExit(s, options, throwError) ==
    LET called == [s EXCEPT !.cli = [at |-> "called", options |-> options,
                                     throwError |-> throwError, promise |-> Unset,
                                     error |-> Null]]
    IN signAddonAndExitResume(signAddon(called, options))

\* signAddonAndExit is called with any options.
CliInit ==
    /\ addon = 1
    /\ \E options \in Options : \E throwError \in BOOLEAN :
          Is(signAddonAndExit(Blank, options, throwError))

\* fs.stat(xpiPath) settles.
CliStat ==
    /\ cli.at = "stat"
    /\ UNCHANGED addon
    /\ \E stats \in StatOutcomes :
          Becomes(signAddonAndExitResume(signAddonStat(Now, stats)))

\* The promise client.sign() returned settles.
CliSignSettles ==
    /\ cli.at = "signing"
    /\ signPromise.state = "pending"
    /\ UNCHANGED addon
    /\ \E outcome \in SignOutcomes :
          Becomes(signAddonAndExitResume([Now EXCEPT !.submit = "done",
                                                    !.signPromise = outcome]))

CliNext ==
    \/ CliStat
    \/ CliSignSettles

CliSpec == CliInit /\ [][CliNext]_vars

\* Every callback that is pending eventually runs.
FairSpec ==
    /\ Spec
    /\ WF_vars(SubmitResponse)
    /\ WF_vars(StatusResponse)
    /\ WF_vars(PollTimerFires)
    /\ WF_vars(AbortTimerFires)
    /\ WF_vars(DownloadFinish \/ DownloadError \/ DownloadBadStatus)

\* ------------------------------------------------------------------ properties

WaitCalled == Len(waitCalls) > 0
Settled == promise.state \in {"resolved", "rejected"}
Last(seq) == seq[Len(seq)]

\* A step in which the function fn receives the body of its status GET.
ReportStep(fn) ==
    /\ \E q \in requests : q.fn = fn /\ q \notin requests'
    /\ received' = received + 1

\* The step calls resolve(value) and nothing else on the promise.
ResolvesWith(value) ==
    /\ settleCalls' = Append(settleCalls, [op |-> "resolve", value |-> value])
    /\ promise.state = "pending" => promise' = [state |-> "resolved", value |-> value]

\* The step arms exactly one next-poll timer, for fn.
ArmsOnePoll(fn) ==
    /\ statusCheckTimeout' = statusCheckTimeout + 1
    /\ pollTimers' = pollTimers \cup {[handle |-> statusCheckTimeout', fn |-> fn,
                                      delay |-> thisStatusCheckInterval]}
    /\ Cardinality(pollTimers') = 1

\* C1: once the promise of waitForSignedAddon has settled, no further
\* status GET is issued and no further next-poll timer is armed.
C1_NoPollingAfterSettlement ==
    [][Settled => /\ getCount' = getCount
                  /\ statusCheckTimeout' = statusCheckTimeout
                  /\ pollTimers' \subseteq pollTimers]_vars

\* C2: every waitForSignedAddon call settles: while its promise is pending
\* some timer, request or download is still pending and will run, and once
\* settled the promise keeps its outcome.
C2_NeverPendingForever ==
    (WaitCalled /\ promise.state = "pending") => ENABLED Next

BusinessCodes == {"SERVER_FAILURE", "VALIDATION_FAILED", "ADDON_NOT_AUTO_SIGNED"}

WellFormedResult(v) ==
    /\ (v.downloadedFiles # Null) <=> v.success
    /\ ~v.success => v.id = Null /\ v.errorCode \in BusinessCodes
    /\ v.success => v.errorCode = NoCode

\* C3: every value sign() or waitForSignedAddon() resolves with, and every
\* value passed to resolve(), has downloadedFiles non-null iff success, and
\* id null with one of the three error codes when success is false, and a
\* null errorCode when success is true.
C3_ResultShape ==
    /\ promise.state = "resolved" => WellFormedResult(promise.value)
    /\ signPromise.state = "resolved" => WellFormedResult(signPromise.value)
    /\ \A i \in 1..Len(settleCalls) :
          settleCalls[i].op = "resolve" => WellFormedResult(settleCalls[i].value)

C3_Witness ==
    /\ signPromise.state = "resolved"
    /\ signPromise.value.success
    /\ signPromise.value.id = Guid(addon)
    /\ \E i \in 1..Len(settleCalls) : settleCalls[i].op = "resolve"

IsBusinessOutcome(v) == v.success \/ v.errorCode \in BusinessCodes

DownloadFailed == \E i \in 1..Len(downloads) : downloads[i].state \in {"rejected", "thrown"}

\* C4: the promise resolves only with one of the four business outcomes;
\* after a timeout, a call with no signed files, a failed status GET, a
\* failed submit or a failed download it is rejected.
C4_OnlyBusinessOutcomesResolve ==
    /\ promise.state = "resolved" => IsBusinessOutcome(promise.value)
    /\ signPromise.state = "resolved" => IsBusinessOutcome(signPromise.value)
    /\ abortTimeout.state = "fired" => promise.state = "rejected"
    /\ (dlCalls > 0 /\ Len(downloads) = 0) => promise.state = "rejected"
    /\ (\E i \in 1..Len(settleCalls) : settleCalls[i].op = "reject")
          => promise.state = "rejected"
    /\ DownloadFailed => promise.state = "rejected"

\* C5: in the validation phase a report is classified by processed and
\* valid alone: unprocessed arms exactly one next poll of the validation
\* check after statusCheckInterval; processed and invalid calls resolve with
\* success=false, VALIDATION_FAILED and that report's validation_url, and
\* the signing phase is not entered; processed and valid issues the signing
\* phase's first GET.
C5_ValidationFailedCalled ==
    \E i \in 1..Len(settleCalls) :
        /\ settleCalls[i].op = "resolve"
        /\ settleCalls[i].value.errorCode = "VALIDATION_FAILED"

C5_ValidationClassification ==
    /\ [][ReportStep("validation") =>
            LET status == lastStatus'
            IN /\ ~Processed(status) =>
                    /\ ArmsOnePoll("validation")
                    /\ settleCalls' = settleCalls
                    /\ getCount' = getCount
                    /\ requests' = {}
               /\ (Processed(status) /\ ~Valid(status)) =>
                    /\ ResolvesWith([success |-> FALSE, id |-> Null,
                                     downloadedFiles |-> Null,
                                     errorCode |-> "VALIDATION_FAILED",
                                     errorDetails |-> status.validation_url])
                    /\ getCount' = getCount
                    /\ requests' = {}
                    /\ pollTimers' = {}
               /\ (Processed(status) /\ Valid(status)) =>
                    /\ requests' = {[n |-> getCount + 1, fn |-> "signing"]}
                    /\ getCount' = getCount + 1
                    /\ settleCalls' = settleCalls
                    /\ statusCheckTimeout' = statusCheckTimeout]_vars
    /\ [](C5_ValidationFailedCalled =>
            /\ requests = {}
            /\ pollTimers = {}
            /\ dlCalls = 0
            /\ Len(settleCalls) <= 2)

C5_Witness ==
    /\ promise.state = "resolved"
    /\ promise.value.errorCode = "VALIDATION_FAILED"
    /\ promise.value.errorDetails = ValidationUrl(addon)
    /\ getCount = 2

SignedEntries(files) == SelectSeq(files, LAMBDA f : f.signed)

\* C6 as stated: a signing-phase report that is active, reviewed and has
\* files makes downloadSignedFiles be called with that report's files.
C6_ActiveReviewedFilesDownloads ==
    [][(ReportStep("signing") /\ Active(lastStatus') /\ Reviewed(lastStatus')
           /\ HasFiles(lastStatus')) =>
          /\ dlCalls' = dlCalls + 1
          /\ dlFiles' = [type |-> "files", list |-> lastStatus'.files]]_vars

\* C6 amended: a signing-phase report that is valid, has a true
\* automated_signing, is active, reviewed and has files makes
\* downloadSignedFiles be called, once, with exactly that report's files;
\* when that download resolves, resolve() is called with its result (the
\* paths of the signed entries) extended by id = that report's guid.
C6_ReadyReportDownloads ==
    [][/\ (ReportStep("signing") /\ Valid(lastStatus') /\ Active(lastStatus')
              /\ Reviewed(lastStatus') /\ HasFiles(lastStatus')
              /\ AutomatedSigning(lastStatus') = "true") =>
             /\ dlCalls' = dlCalls + 1
             /\ dlFiles' = [type |-> "files", list |-> lastStatus'.files]
       /\ (dlPromise = "pending" /\ dlPromise' = "resolved") =>
             ResolvesWith(
                 [success |-> TRUE, id |-> lastStatus.guid,
                  downloadedFiles |->
                      [type |-> "paths",
                       list |-> [i \in 1..Len(SignedEntries(dlFiles.list)) |->
                                    [type |-> "path", dir |-> "downloadDir",
                                     basename |-> SignedEntries(dlFiles.list)[i].download_url]]],
                  errorCode |-> NoCode, errorDetails |-> Null])]_vars

C6_Witness ==
    /\ promise.state = "resolved"
    /\ promise.value.success
    /\ promise.value.id = lastStatus.guid
    /\ dlFiles.list = lastStatus.files
    /\ Len(promise.value.downloadedFiles.list) > 0

C7_NeedsReviewCalled ==
    \E i \in 1..Len(settleCalls) :
        /\ settleCalls[i].op = "resolve"
        /\ settleCalls[i].value.errorCode = "ADDON_NOT_AUTO_SIGNED"

\* C7: a signing-phase report with valid=true and automated_signing=false
\* calls resolve with success=false and ADDON_NOT_AUTO_SIGNED, and no
\* download is started, then or later, whatever else the report says.
C7_ManualReviewPrecedes ==
    /\ [][(ReportStep("signing") /\ Valid(lastStatus')
              /\ AutomatedSigning(lastStatus') = "false") =>
             /\ ResolvesWith([success |-> FALSE, id |-> Null, downloadedFiles |-> Null,
                              errorCode |-> "ADDON_NOT_AUTO_SIGNED",
                              errorDetails |-> Null])
             /\ dlCalls' = dlCalls
             /\ downloads' = downloads
             /\ requests' = {}
             /\ pollTimers' = {}]_vars
    /\ [](C7_NeedsReviewCalled => dlCalls = 0 /\ requests = {} /\ pollTimers = {})

C7_Witness ==
    /\ promise.state = "resolved"
    /\ promise.value.errorCode = "ADDON_NOT_AUTO_SIGNED"
    /\ IsReport(lastStatus)
    /\ lastStatus.automated_signing = "false"
    /\ lastStatus.active /\ lastStatus.reviewed /\ Len(lastStatus.files) > 0
    /\ lastStatus.files[1].signed

\* C8: a signing-phase report without an automated_signing field never
\* yields the needs-manual-review outcome, and when it is valid, active,
\* reviewed and has files the download starts.
C8_AbsentAutoSigningIsAutoSignable ==
    [][(ReportStep("signing") /\ IsReport(lastStatus')
           /\ AutomatedSigning(lastStatus') = "undefined") =>
          /\ ~(C7_NeedsReviewCalled')
          /\ (Valid(lastStatus') /\ Active(lastStatus') /\ Reviewed(lastStatus')
                 /\ HasFiles(lastStatus')) => dlCalls' = dlCalls + 1]_vars

\* C9 as stated: a signing-phase report with an empty files list never
\* settles the promise and arms another poll.
C9_EmptyFilesNeverTerminal ==
    [][(ReportStep("signing") /\ IsReport(lastStatus') /\ Len(lastStatus'.files) = 0) =>
          /\ settleCalls' = settleCalls
          /\ ArmsOnePoll("signing")]_vars

\* C9 amended: a signing-phase report with an empty files list never starts
\* a download and never yields success.  It is terminal only as the
\* needs-manual-review outcome, which it is whenever it is valid with
\* automated_signing=false; when it is invalid, or valid with
\* automated_signing=true, it settles nothing and exactly one next poll of
\* the signing check is armed.
C9_EmptyFilesNeverDownload ==
    [][(ReportStep("signing") /\ IsReport(lastStatus') /\ Len(lastStatus'.files) = 0) =>
          LET needsReview ==
                  ResolvesWith([success |-> FALSE, id |-> Null, downloadedFiles |-> Null,
                                errorCode |-> "ADDON_NOT_AUTO_SIGNED",
                                errorDetails |-> Null])
              pollsAgain ==
                  /\ settleCalls' = settleCalls
                  /\ promise' = promise
                  /\ ArmsOnePoll("signing")
          IN /\ dlCalls' = dlCalls
             /\ downloads' = downloads
             /\ needsReview \/ pollsAgain
             /\ (lastStatus'.valid /\ lastStatus'.automated_signing = "false")
                    => needsReview
             /\ (~lastStatus'.valid \/ lastStatus'.automated_signing = "true")
                    => pollsAgain]_vars

C9_Witness ==
    /\ IsReport(lastStatus)
    /\ lastStatus.valid /\ lastStatus.active /\ lastStatus.reviewed
    /\ lastStatus.automated_signing = "true"
    /\ Len(lastStatus.files) = 0
    /\ promise.state = "pending"
    /\ \E t \in pollTimers : t.fn = "signing"

\* C10: when the abort timer fires the promise is still pending and gets
\* rejected with the 'took too long' error, made of the last status body
\* received, or of '[null]' when none (or only an empty body) has been
\* received; it never resolves afterwards.
C10_Expected(last) ==
    IF IsReport(last) THEN last
    ELSE IF last.type = "string" /\ last.text # "" THEN last
    ELSE [type |-> "string", text |-> "[null]"]

C10_TimeoutRejects ==
    /\ [][(abortTimeout.state = "pending" /\ abortTimeout'.state = "fired") =>
             /\ promise.state = "pending"
             /\ promise'.state = "rejected"
             /\ promise'.value.name = "Signing took too long to complete"
             /\ promise'.value.detail.of = C10_Expected(lastStatus)
             /\ (received = 0 => promise'.value.detail.of.text = "[null]")]_vars
    /\ [](abortTimeout.state = "fired" =>
             /\ promise.state = "rejected"
             /\ promise.value.name = "Signing took too long to complete")

C10_Witness ==
    /\ abortTimeout.state = "fired"
    /\ \E q \in requests : q.fn = "signing"
    /\ IsReport(lastStatus)
    /\ promise.state = "rejected"
    /\ promise.value.detail.of = lastStatus

\* C11: on entering the signing phase (a processed and valid report in the
\* validation phase, before any timeout) the abort timer armed for the
\* validation phase is cancelled and a fresh abort timer of
\* statusCheckTimeout is armed.
C11_FreshAbortTimerForSigning ==
    [][(ReportStep("validation") /\ Processed(lastStatus') /\ Valid(lastStatus')
           /\ abortTimeout.state = "pending") =>
          /\ setAbortCalls' = setAbortCalls + 1
          /\ clearCalls' = Append(clearCalls, AbortHandle)
          /\ abortTimeout' = [state |-> "pending", delay |-> thisStatusCheckTimeout]]_vars

\* A step in which the status GET awaited by fn fails: no body is received.
GetFails(fn) ==
    /\ \E q \in requests : q.fn = fn /\ q \notin requests'
    /\ received' = received

\* The errors Client.request() throws for a status GET.
GetErrors ==
    {[type |-> "error", name |-> "RequestError", detail |-> Null]}
    \cup {[type |-> "error", name |-> "Received bad response",
           detail |-> [statusCode |-> c]] : c \in {c \in HttpStatuses : c < 200 \/ c > 299}}

C12_GetFailed ==
    \E i \in 1..Len(settleCalls) :
        settleCalls[i].op = "reject" /\ settleCalls[i].value \in GetErrors

\* C12: when a status GET fails, in either phase, the abort timer is cleared
\* and reject is called with the error of the GET (rejecting the promise
\* when it is still pending); no GET is issued and no poll armed in that
\* step or ever after.
C12_PollFailureRejects ==
    /\ [][(GetFails("validation") \/ GetFails("signing")) =>
             /\ Len(settleCalls') = Len(settleCalls) + 1
             /\ Last(settleCalls').op = "reject"
             /\ Last(settleCalls').value \in GetErrors
             /\ promise.state = "pending" =>
                    promise' = [state |-> "rejected", value |-> Last(settleCalls').value]
             /\ clearCalls' = Append(clearCalls, AbortHandle)
             /\ abortTimeout'.state \in {"cleared", "fired"}
             /\ getCount' = getCount
             /\ requests' = {}
             /\ pollTimers' = {}
             /\ statusCheckTimeout' = statusCheckTimeout]_vars
    /\ [][C12_GetFailed => /\ getCount' = getCount
                           /\ statusCheckTimeout' = statusCheckTimeout
                           /\ requests' = {} /\ pollTimers' = {}]_vars

C12_Witness ==
    /\ promise.state = "rejected"
    /\ promise.value.name = "Received bad response"
    /\ abortTimeout.state = "cleared"
    /\ IsReport(lastStatus) /\ lastStatus.processed /\ lastStatus.valid
    /\ getCount = 2

\* The step in which the submit request of sign() completes; requestValue'
\* is what it completed with.
SubmitStep == submit = "inflight" /\ submit' = "done"

\* The response carries an error message (a non-empty error field).
HasError(o) ==
    /\ o.kind = "response"
    /\ o.body.error.type = "string"
    /\ o.body.error.text # ""

SubmitOk(o) ==
    /\ o.kind = "response"
    /\ o.statusCode \in {200, 201, 202}
    /\ ~HasError(o)

\* C13: sign() makes one submit request; it calls waitForSignedAddon, with
\* the url field of the response, exactly when the response has status 200,
\* 201 or 202 and no error; otherwise no status GET is ever issued and no
\* timer armed.
C13_PollsOnlyAfterAcceptedSubmit ==
    /\ [][SubmitStep =>
            IF SubmitOk(requestValue')
            THEN /\ waitCalls' = <<requestValue'.body.url>>
                 /\ setAbortCalls' = 1
                 /\ requestValue'.body.url # Undefined =>
                        /\ getCount' = 1
                        /\ requests' = {[n |-> 1, fn |-> "validation"]}
            ELSE /\ waitCalls' = <<>>
                 /\ getCount' = 0
                 /\ requests' = {}
                 /\ setAbortCalls' = 0
                 /\ signPromise'.state \in {"resolved", "rejected"}]_vars
    /\ [][submit = "done" =>
            /\ submit' = "done"
            /\ Len(waitCalls') = Len(waitCalls)
            /\ Len(waitCalls) = 0 => getCount' = 0 /\ pollTimers' = {}]_vars
    /\ [](getCount > 0 => submit = "done" /\ waitCalls = <<StatusUrl>>)

C13_Witness ==
    /\ requestValue # Null
    /\ requestValue.kind = "response"
    /\ requestValue.statusCode = 202
    /\ waitCalls = <<StatusUrl>>
    /\ getCount = 1

\* C14: a submit response whose body carries an error message makes sign()
\* resolve, whatever the status code, with success=false, SERVER_FAILURE
\* and that message as errorDetails; no polling starts.
C14_ErrorBodyResolvesServerFailure ==
    [][(SubmitStep /\ HasError(requestValue')) =>
          /\ signPromise' =
                [state |-> "resolved",
                 value |-> [success |-> FALSE, id |-> Null, downloadedFiles |-> Null,
                            errorCode |-> "SERVER_FAILURE",
                            errorDetails |-> requestValue'.body.error]]
          /\ waitCalls' = <<>>]_vars

C14_Witness ==
    /\ requestValue # Null
    /\ HasError(requestValue)
    /\ requestValue.statusCode = 200
    /\ signPromise.state = "resolved"
    /\ signPromise.value.errorCode = "SERVER_FAILURE"

\* C15: a submit response with a status other than 200, 201, 202 and no
\* error in its body makes sign() reject with the 'Received bad response'
\* error.
C15_BadStatusRejects ==
    [][(SubmitStep /\ requestValue'.kind = "response"
           /\ requestValue'.statusCode \notin {200, 201, 202}
           /\ ~HasError(requestValue')) =>
          /\ signPromise'.state = "rejected"
          /\ signPromise'.value.name = "Received bad response from the server"
          /\ signPromise'.value.detail.statusCode = requestValue'.statusCode
          /\ waitCalls' = <<>>]_vars

C15_Witness ==
    /\ requestValue # Null
    /\ requestValue.kind = "response"
    /\ requestValue.statusCode = 500
    /\ ~HasError(requestValue)
    /\ signPromise.state = "rejected"

C16_IsServerFailure(p) ==
    /\ p.state = "resolved"
    /\ ~p.value.success
    /\ p.value.errorCode = "SERVER_FAILURE"

\* C16 as stated: a submit response with a status outside 200..299, or with
\* an error in its body, makes sign() resolve with SERVER_FAILURE.
C16_RefusedSubmitResolves ==
    [][(SubmitStep /\ requestValue'.kind = "response"
           /\ (IsBadStatus(requestValue'.statusCode) \/ HasError(requestValue'))) =>
          C16_IsServerFailure(signPromise')]_vars

\* C16 amended: sign() resolves with SERVER_FAILURE exactly when the submit
\* response carries an error message, which becomes errorDetails; a refused
\* status without one rejects; either way the submit is not sent again and
\* nothing polls.
C16_ServerFailureNeedsMessage ==
    /\ [][SubmitStep =>
            /\ C16_IsServerFailure(signPromise') <=> HasError(requestValue')
            /\ HasError(requestValue') =>
                   signPromise'.value.errorDetails = requestValue'.body.error
            /\ (requestValue'.kind = "response" /\ ~HasError(requestValue')
                   /\ requestValue'.statusCode \notin {200, 201, 202}) =>
                   signPromise'.state = "rejected"]_vars
    /\ [](signPromise.state = "resolved" /\ signPromise.value.errorCode = "SERVER_FAILURE"
            => submit = "done" /\ getCount = 0 /\ waitCalls = <<>>)
    /\ [][submit = "done" => submit' = "done"]_vars

C16_Witness ==
    /\ requestValue # Null
    /\ HasError(requestValue)
    /\ requestValue.statusCode = 500
    /\ C16_IsServerFailure(signPromise)
    /\ signPromise.value.errorDetails = requestValue.body.error

\* The value downloadSignedFiles returns for the files it was called with:
\* one path per signed entry, in order.
ExpectedDownloadResult ==
    [success |-> TRUE, id |-> Null,
     downloadedFiles |->
         [type |-> "paths",
          list |-> [i \in 1..Len(SignedEntries(dlFiles.list)) |->
                       [type |-> "path", dir |-> "downloadDir",
                        basename |-> SignedEntries(dlFiles.list)[i].download_url]]],
     errorCode |-> "null", errorDetails |-> Null]

\* C17: downloadSignedFiles issues one download request per entry with
\* signed=true, in order, and none for the others; once every one of them
\* has finished (and there is at least one) it has resolved with
\* success=true and one path per signed entry.
C17_OneDownloadPerSignedEntry ==
    dlCalls > 0 =>
        /\ Len(downloads) = Len(SignedEntries(dlFiles.list))
        /\ \A i \in 1..Len(downloads) :
              downloads[i].url = SignedEntries(dlFiles.list)[i].download_url
        /\ (Len(downloads) > 0
               /\ \A i \in 1..Len(downloads) : downloads[i].state = "finished") =>
              /\ dlPromise = "resolved"
              /\ dlValue = ExpectedDownloadResult

C17_Witness ==
    /\ dlCalls = 1
    /\ Len(dlFiles.list) = 3
    /\ Len(SignedEntries(dlFiles.list)) = 2
    /\ ~dlFiles.list[2].signed
    /\ Len(downloads) = 2
    /\ dlPromise = "resolved"
    /\ Len(dlValue.downloadedFiles.list) = 2

\* C18: called with no signed entry, whatever the length of the list,
\* downloadSignedFiles rejects with the 'no signed files were found' error
\* and issues no request.
C18_NoSignedFilesRejects ==
    (dlCalls > 0 /\ Len(SignedEntries(dlFiles.list)) = 0) =>
        /\ dlPromise = "rejected"
        /\ dlValue = [type |-> "error", name |-> "no signed files were found",
                      detail |-> Null]
        /\ downloads = <<>>

C18_Witness ==
    /\ dlCalls = 1
    /\ Len(dlFiles.list) = 2
    /\ ~dlFiles.list[1].signed /\ ~dlFiles.list[2].signed
    /\ dlPromise = "rejected"
    /\ downloads = <<>>

\* C19: once one of the downloads has failed (a response outside 200..299, a
\* request error or a write-stream error) downloadSignedFiles is rejected,
\* with the error of a failed download, and a bad-response error names the
\* file URL and the status code.
C19_AnyDownloadFailureRejects ==
    (\E i \in 1..Len(downloads) : downloads[i].state \in {"rejected", "thrown"}) =>
        /\ dlPromise = "rejected"
        /\ dlValue.type = "error"
        /\ dlValue.name \in {"download error", "Got a bad response when downloading"}
        /\ dlValue.name = "Got a bad response when downloading" =>
              /\ \E i \in 1..Len(downloads) : downloads[i].url = dlValue.detail.url
              /\ dlValue.detail.statusCode \notin 200..299

VersionPath(guid, version) ==
    [type |-> "path",
     parts |-> <<Str("/addons/"), encodeURIComponent(guid), Str("/versions/"),
                 encodeURIComponent(version), Str("/")>>]

\* C21: sign() with a guid sends one PUT to
\* /addons/{encodeURIComponent(guid)}/versions/{encodeURIComponent(version)}/
\* whose form data has upload, has the channel exactly when a channel was
\* supplied, and has no version; sign() without a guid sends one POST to
\* /addons/ whose form data has upload and version and no channel, whatever
\* channel the caller asked for.
C21_SubmitRequestShape ==
    signArgs # Null =>
        /\ Len(requestConfs) = 1
        /\ LET sent == requestConfs[1]
               formData == sent.conf.formData
           IN /\ formData.upload = createReadStream(signArgs.xpiPath)
              /\ IF Truthy(signArgs.guid)
                 THEN /\ sent.via = "put"
                      /\ sent.conf.url.rest = VersionPath(signArgs.guid, signArgs.version)
                      /\ "channel" \in DOMAIN formData <=> Truthy(signArgs.channel)
                      /\ Truthy(signArgs.channel) => formData.channel = signArgs.channel
                      /\ "version" \notin DOMAIN formData
                 ELSE /\ sent.via = "post"
                      /\ sent.conf.url.rest = [type |-> "path", parts |-> <<Str("/addons/")>>]
                      /\ DOMAIN formData = {"upload", "version"}
                      /\ formData.version = signArgs.version

\* sign() was called without a guid and with a channel, and sent a POST.
C21_Witness ==
    /\ signArgs # Null
    /\ ~Truthy(signArgs.guid)
    /\ Truthy(signArgs.channel)
    /\ Len(requestConfs) = 1
    /\ requestConfs[1].via = "post"

\* The headers the requestConfig of the client brings.
OwnHeaders(client) ==
    IF "headers" \in DOMAIN client.requestConfig
    THEN client.requestConfig.headers ELSE Empty

\* The Authorization header configureRequest computes for a request.
JwtAuthorization(client) ==
    [scheme |-> "JWT",
     token |-> jwtSign([iss |-> client.apiKey], client.apiSecret,
                       [algorithm |-> "HS256", expiresIn |-> client.apiJwtExpiresIn])]

\* The timeout of the request is apiJwtExpiresIn * 1000 + 500 ms, more than
\* the lifetime of the token.
TimeoutCoversToken(client, conf) ==
    /\ conf.timeout = client.apiJwtExpiresIn * 1000 + 500
    /\ conf.timeout > client.apiJwtExpiresIn * 1000

\* C22 as stated: every request handed to the request module (the submit, a
\* status poll, a file download) carries the Authorization header computed
\* for it and Accept: application/json, and its timeout is
\* apiJwtExpiresIn * 1000 + 500 ms, more than the lifetime of the token.
C22_DefaultHeadersAlways ==
    \A i \in 1..Len(requestConfs) :
        LET conf == requestConfs[i].conf
        IN /\ {"Authorization", "Accept"} \subseteq DOMAIN conf.headers
           /\ conf.headers.Authorization = JwtAuthorization(This(Now))
           /\ conf.headers.Accept = "application/json"
           /\ TimeoutCoversToken(This(Now), conf)

\* C22, amended: every request handed to the request module carries an
\* Authorization header and an Accept header, each the one the client's
\* requestConfig brings if it brings one, and otherwise the token computed
\* for the request and application/json; its timeout is
\* apiJwtExpiresIn * 1000 + 500 ms, more than the lifetime of the token,
\* whatever the requestConfig says.
C22_DefaultHeadersUnlessOverridden ==
    \A i \in 1..Len(requestConfs) :
        LET conf == requestConfs[i].conf
            own == OwnHeaders(This(Now))
        IN /\ {"Authorization", "Accept"} \subseteq DOMAIN conf.headers
           /\ conf.headers.Authorization =
                 IF "Authorization" \in DOMAIN own THEN own.Authorization
                 ELSE JwtAuthorization(This(Now))
           /\ conf.headers.Accept =
                 IF "Accept" \in DOMAIN own THEN own.Accept ELSE "application/json"
           /\ TimeoutCoversToken(This(Now), conf)

\* A client whose requestConfig brings an Accept header of its own has
\* started a download.
C22_Witness ==
    /\ "Accept" \in DOMAIN OwnHeaders(This(Now))
    /\ \E i \in 1..Len(requestConfs) : requestConfs[i].via = "download"

\* The required arguments that are empty in the options of the call.
EmptyArguments ==
    {RequiredArguments[i] : i \in {j \in 1..Len(RequiredArguments) :
                                      ~Truthy(cli.options[RequiredArguments[j]])}}

\* signAddon has settled with what it awaited last.
SignAddonRejected == cli.promise.state = "rejected"
SignAddonResolved == cli.promise.state = "resolved"

\* C23: signAddonAndExit calls systemProcess.exit at most once, and not
\* before signAddon has settled.  When signAddon resolves, exit is called
\* once, with 0 if the result has success = true and with 1 otherwise.  When
\* signAddon rejects (empty argument, error with the XPI file, sign()
\* rejecting) and throwError is false, exit is called once with 1; when
\* throwError is true, that error is rethrown and exit is not called.
C23_ExitOnceWithOutcome ==
    cli.at # "none" =>
        /\ Len(exitCalls) <= 1
        /\ SignAddonResolved =>
              /\ cli.at = "returned"
              /\ exitCalls = <<IF cli.promise.value.success = TRUE THEN 0 ELSE 1>>
        /\ SignAddonRejected /\ ~cli.throwError =>
              /\ cli.at = "returned"
              /\ exitCalls = <<1>>
        /\ SignAddonRejected /\ cli.throwError =>
              /\ cli.at = "thrown"
              /\ cli.error = cli.promise.value
              /\ exitCalls = <<>>
        /\ ~SignAddonResolved /\ ~SignAddonRejected => exitCalls = <<>>
        /\ exitCalls = <<0>> => SignAddonResolved /\ cli.promise.value.success = TRUE

\* sign() resolved with success = false and signAddonAndExit exited with 1.
C23_Witness ==
    /\ cli.at = "returned"
    /\ SignAddonResolved
    /\ cli.promise.value.success = FALSE
    /\ exitCalls = <<1>>

Settles == ~Settled /\ Settled'

\* The calls of clearTimeout made so far with the abort-timer handle, and
\* those with a poll-timer handle.
AbortClears(calls) == SelectSeq(calls, LAMBDA h : h.timer = "abort")
PollClears(calls) == SelectSeq(calls, LAMBDA h : h.timer = "poll")

\* C25: resolve() and reject() of one waitForSignedAddon call are invoked at
\* most once in all: the abort callback and a status or download handler
\* never both try to settle the promise.
C25_SettledAtMostOnce == Len(settleCalls) <= 1

\* C26: in the step in which the promise of waitForSignedAddon settles, on
\* whatever path, no next-poll timer and no abort timer is left pending.
C26_NoTimerPendingAtSettlement ==
    [][Settles => pollTimers' = {} /\ abortTimeout'.state # "pending"]_vars

\* The abort timer fired while a next-poll timer was pending; the promise is
\* rejected and that poll timer is gone.
C26_Witness ==
    /\ promise.state = "rejected"
    /\ Len(settleCalls) = 1
    /\ abortTimeout.state = "fired"
    /\ statusCheckTimeout = 1
    /\ clearCalls = <<PollHandle(1)>>
    /\ pollTimers = {}

C28_AtMostOneTimerEach ==
    /\ Cardinality(pollTimers) <= 1
    /\ setAbortCalls <= 1
    /\ abortTimeout.state = "pending" => setAbortCalls = 1

\* The second next-poll timer is pending, alone, beside the abort timer.
C28_Witness ==
    /\ statusCheckTimeout = 2
    /\ Cardinality(pollTimers) = 1
    /\ abortTimeout.state = "pending"

\* C29: at most one status GET is in flight at any time, and none while a
\* next-poll timer is pending: the next poll is scheduled only once the
\* request before it has completed, also when validation hands over to
\* signing.
C29_OneStatusRequestAtATime ==
    /\ Cardinality(requests) <= 1
    /\ pollTimers # {} => requests = {}

\* The first GET of checkSignedStatus is in flight, alone, right after the
\* validation report.
C29_Witness ==
    /\ \E q \in requests : q.fn = "signing"
    /\ Cardinality(requests) = 1
    /\ received = 1
    /\ Valid(lastStatus)

\* A report has been classified as terminal: invalid or needing manual
\* review (resolve was called with that result) or signed and ready
\* (downloadSignedFiles was called).
ClassifiedTerminal ==
    \/ dlCalls > 0
    \/ \E i \in 1..Len(settleCalls) :
          /\ settleCalls[i].op = "resolve"
          /\ settleCalls[i].value.errorCode \in {"VALIDATION_FAILED",
                                                 "ADDON_NOT_AUTO_SIGNED"}

\* C30: from the classification of a report as terminal on, no status GET
\* is issued and no next-poll timer is armed, also while the downloads of a
\* signed-and-ready report are running.
C30_NoPollingAfterTerminalReport ==
    /\ ClassifiedTerminal => requests = {} /\ pollTimers = {}
    /\ (\E i \in 1..Len(downloads) : downloads[i].state = "pending") =>
          requests = {} /\ pollTimers = {}

\* The downloads of a signed-and-ready report are running after two polls.
C30_Witness ==
    /\ ClassifiedTerminal
    /\ dlPromise = "pending"
    /\ \E i \in 1..Len(downloads) : downloads[i].state = "pending"
    /\ getCount >= 2

\* 1 when the condition holds, else 0.
Count(condition) == IF condition THEN 1 ELSE 0

\* What a handler does in the step in which it receives a report: it arms
\* one next-poll timer, or (checkValidationStatus only) goes on to
\* checkSignedStatus, which polls at once; it calls downloadSignedFiles; it
\* resolves with the given error code.
StepArmsPoll ==
    /\ statusCheckTimeout' = statusCheckTimeout + 1
    /\ Cardinality(pollTimers') = Cardinality(pollTimers) + 1
StepPollsAtOnce == getCount' = getCount + 1
StepStartsDownload == dlCalls' = dlCalls + 1
StepResolvesCode(code) ==
    /\ Len(settleCalls') = Len(settleCalls) + 1
    /\ Last(settleCalls').op = "resolve"
    /\ Last(settleCalls').value.errorCode = code

\* C31: a handler that receives a report does exactly one of: keep polling
\* (arm one next-poll timer or, when validation has passed, poll at once
\* for signing), start the downloads, resolve as invalid, resolve as needing
\* review.  A report that arms a poll makes no call of resolve or reject,
\* and one that starts the downloads does not resolve as needing review.
C31_OneDecisionPerReport ==
    [][\A fn \in {"validation", "signing"} :
          ReportStep(fn) =>
              /\ Count(StepArmsPoll) + Count(StepPollsAtOnce)
                 + Count(StepStartsDownload)
                 + Count(StepResolvesCode("VALIDATION_FAILED"))
                 + Count(StepResolvesCode("ADDON_NOT_AUTO_SIGNED")) = 1
              /\ StepPollsAtOnce => fn = "validation"
              /\ StepArmsPoll \/ StepPollsAtOnce => settleCalls' = settleCalls
              /\ pollTimers' # {} => settleCalls' = settleCalls
              /\ StepStartsDownload =>
                    \A i \in 1..Len(settleCalls') :
                        settleCalls'[i].value # NeedsReviewResult]_vars

\* The second report of the signing check asked for a manual review: the
\* promise is resolved with it and nothing else was started.
C31_Witness ==
    /\ promise = [state |-> "resolved", value |-> NeedsReviewResult]
    /\ received = 3
    /\ pollTimers = {}
    /\ requests = {}
    /\ dlCalls = 0

ResolveCalled == \E i \in 1..Len(settleCalls) : settleCalls[i].op = "resolve"

\* The abort-timer handle has been passed to clearTimeout and the abort
\* timer can no longer fire.
AbortTimerCancelled ==
    /\ Len(AbortClears(clearCalls)) >= 1
    /\ abortTimeout.state # "pending"

\* C33: once waitForSignedAddon has resolved with a result (success,
\* validation failure, manual review), the abort-timer handle has been
\* passed to clearTimeout; it has been from the start of the downloads on,
\* so the abort timer cannot fire during or after the downloads.
C33_AbortClearedBeforeOutcome ==
    /\ ResolveCalled => AbortTimerCancelled
    /\ dlCalls > 0 => AbortTimerCancelled /\ ~ENABLED AbortTimerFires

\* The downloads are running with the abort timer cleared.
C33_Witness ==
    /\ dlPromise = "pending"
    /\ clearCalls = <<AbortHandle>>
    /\ abortTimeout.state = "cleared"
    /\ promise.state = "pending"

\* The step is the abort timer firing.
AbortFires == abortTimeout.state = "pending" /\ abortTimeout'.state = "fired"

\* C34: when the abort timer fires while a next-poll timer is pending, the
\* abort callback passes that timer's handle to clearTimeout and rejects;
\* the poll timer is gone, nothing else is pending, and from then on no
\* status GET is issued and no poll timer armed.
C34_AbortCancelsPendingPoll ==
    [][/\ AbortFires /\ pollTimers # {} =>
             /\ \E t \in pollTimers :
                   clearCalls' = Append(clearCalls, PollHandle(t.handle))
             /\ pollTimers' = {}
             /\ requests' = {}
             /\ Len(settleCalls') = Len(settleCalls) + 1
             /\ Last(settleCalls').op = "reject"
             /\ getCount' = getCount
       /\ abortTimeout.state = "fired" /\ pollTimers = {} /\ requests = {} =>
             /\ getCount' = getCount
             /\ pollTimers' = {}]_vars

\* The abort timer fired while the second next-poll timer was pending: its
\* handle was cleared and the poll never ran.
C34_Witness ==
    /\ abortTimeout.state = "fired"
    /\ statusCheckTimeout = 2
    /\ getCount = 2
    /\ clearCalls = <<PollHandle(2)>>
    /\ pollTimers = {}
    /\ promise.state = "rejected"

\* C35: once the promise of waitForSignedAddon has settled,
\* downloadSignedFiles is not called: in particular a status response that
\* was in flight when the abort timer fired starts no download.
C35_NoDownloadAfterSettlement ==
    [][Settled => dlCalls' = dlCalls]_vars

\* C36: in the step in which the promise of waitForSignedAddon settles, on
\* whatever path, the progress indicator is stopped: finish() was called
\* after the last animate(), so no progress interval is left running.
C36_ProgressStoppedAtSettlement ==
    [][Settles => progress' = "finished"]_vars

\* C37: downloadSignedFiles is called at most once in a waitForSignedAddon
\* call, and then with the files list of a report of the signing check that
\* is valid, active and reviewed and whose list is not empty.
C37_OneDownloadCallOfReadyReport ==
    /\ dlCalls <= 1
    /\ dlCalls = 1 =>
          /\ IsReport(dlStatus)
          /\ Valid(dlStatus) /\ Active(dlStatus) /\ Reviewed(dlStatus)
          /\ dlFiles = [type |-> "files", list |-> Files(dlStatus)]
          /\ Len(dlFiles.list) > 0
          /\ received >= 2
          /\ getCount >= 2

\* The downloads of a signed-and-ready report have been made and the call
\* has resolved with success.
C37_Witness ==
    /\ dlCalls = 1
    /\ Len(dlFiles.list) = 1
    /\ promise.state = "resolved"
    /\ promise.value.success

\* The requests of this step that download() handed to the request module.
DownloadRequests == SelectSeq(requestConfs, LAMBDA sent : sent.via = "download")

\* C38: the call of downloadSignedFiles hands the request module one
\* request per signed entry, in input order, all of them before any has
\* completed; when it has resolved, downloadedFiles lists the local paths of
\* the signed entries in input order, whatever the order in which the
\* downloads finished.
C38_FanOutAndInputOrder ==
    /\ DownloadRequests # <<>> =>
          /\ Len(DownloadRequests) = Len(SignedEntries(dlFiles.list))
          /\ \A i \in 1..Len(DownloadRequests) :
                /\ DownloadRequests[i].conf.url = SignedEntries(dlFiles.list)[i].download_url
                /\ DownloadRequests[i].conf.method = "GET"
                /\ downloads[i].state = "pending"
          /\ dlFinished = <<>>
          /\ dlPromise = "pending"
    /\ dlPromise = "resolved" =>
          /\ Len(dlFinished) = Len(SignedEntries(dlFiles.list))
          /\ \A i \in 1..Len(SignedEntries(dlFiles.list)) :
                dlValue.downloadedFiles.list[i] =
                    FileName(SignedEntries(dlFiles.list)[i].download_url)

\* Three signed entries whose downloads finished in the order 3, 1, 2, and
\* the resolved list in input order.
C38_Witness ==
    /\ dlPromise = "resolved"
    /\ Len(SignedEntries(dlFiles.list)) = 3
    /\ dlFinished = <<3, 1, 2>>
    /\ dlValue.downloadedFiles.list[1] = FileName(dlFiles.list[1].download_url)

\* The step is the completion of a status GET that failed.
GetFailedStep == requests' # requests /\ received' = received

\* C39: a handler that receives a 2xx body that is not a report (an empty
\* body, or text that failed to parse) calls neither resolve nor reject,
\* starts no download and arms one next-poll timer for itself; while such a
\* body is the last one received and no GET fails, the promise settles only
\* by the abort timer firing.
C39_NonReportBodyKeepsPolling ==
    [][/\ \A fn \in {"validation", "signing"} :
             ReportStep(fn) /\ lastStatus'.type = "string" =>
                 /\ settleCalls' = settleCalls
                 /\ promise' = promise
                 /\ dlCalls' = dlCalls
                 /\ getCount' = getCount
                 /\ StepArmsPoll
                 /\ \E t \in pollTimers' : t.handle = statusCheckTimeout' /\ t.fn = fn
       /\ Settles /\ lastStatus'.type = "string" /\ ~GetFailedStep =>
             /\ AbortFires
             /\ promise'.state = "rejected"
             /\ promise'.value.name = "Signing took too long to complete"]_vars

\* Two bodies that are not reports were received and polled on, and the
\* abort timer ended the call.
C39_Witness ==
    /\ lastStatus = [type |-> "string", text |-> "<html>"]
    /\ received = 2
    /\ statusCheckTimeout = 2
    /\ abortTimeout.state = "fired"
    /\ Len(settleCalls) = 1
    /\ promise.state = "rejected"
    /\ promise.value.name = "Signing took too long to complete"


\* ------------------------------------------------------------------------
\* Client.debug(): objects live in memory at addresses, and a field holds a
\* primitive or a reference to another object, so that a write through one
\* reference is seen through every other reference to the same object.

Ref(a) == [type |-> "ref", addr |-> a]

KeyOrder == <<"headers", "request", "response", "Authorization", "cookie",
              "set-cookie", "Accept", "body", "0">>

Sensitive == {"Authorization", "cookie", "set-cookie"}

Redaction == Str("<REDACTED>")

Fresh(heap) ==
    IF DOMAIN heap = {} THEN 0
    ELSE CHOOSE m \in DOMAIN heap : \A a \in DOMAIN heap : a <= m

RefKeys(heap, a) ==
    SelectSeq(KeyOrder, LAMBDA k : /\ k \in DOMAIN heap[a].fields
                                   /\ heap[a].fields[k].type = "ref")

Children(heap, a) ==
    [i \in 1..Len(RefKeys(heap, a)) |-> heap[a].fields[RefKeys(heap, a)[i]].addr]

RECURSIVE Reach(_, _)
Reach(heap, todo) ==
    IF todo = <<>> THEN {}
    ELSE {Head(todo)} \cup Reach(heap, Tail(todo) \o Children(heap, Head(todo)))

deepcopy_Same(heap, ref) == [heap |-> heap, ref |-> ref]

\* deepcopy(newVal): every object reachable from the value is built anew
deepcopy(heap, ref) ==
    LET base == Fresh(heap)
        old == Reach(heap, <<ref.addr>>)
        Moved(v) == IF v.type = "ref" THEN Ref(base + v.addr) ELSE v
        copies == [a \in {base + x : x \in old} |->
                     [fields |-> [k \in DOMAIN heap[a - base].fields |->
                                    Moved(heap[a - base].fields[k])]]]
    IN [heap |-> heap @@ copies, ref |-> Ref(base + ref.addr)]

\* if (obj.headers) { [...].forEach(hdr => { if (obj.headers[hdr]) ... }) }
redactHeaders(heap, a) ==
    IF /\ "headers" \in DOMAIN heap[a].fields
       /\ heap[a].fields["headers"].type = "ref"
    THEN LET h == heap[a].fields["headers"].addr
         IN [heap EXCEPT ![h].fields =
               [k \in DOMAIN @ |-> IF k \in Sensitive /\ Truthy(@[k])
                                   THEN Redaction ELSE @[k]]]
    ELSE heap

\* redact(obj) writes into the objects it is given, then into each of their
\* fields in turn; todo is the list of objects still to visit
RECURSIVE redact(_, _)
redact(heap, todo) ==
    IF todo = <<>> THEN heap
    ELSE LET cleaned == redactHeaders(heap, Head(todo))
         IN redact(cleaned, Tail(todo) \o Children(cleaned, Head(todo)))

\* arguments.map(val => typeof val === 'object' ? redact(deepcopy(val)) : val)
RECURSIVE debugArgs(_, _)
debugArgs(heap, args) ==
    IF args = <<>> THEN [heap |-> heap, out |-> <<>>]
    ELSE LET val == Head(args)
             copied == IF val.type = "ref" THEN deepcopy(heap, val)
                       ELSE [heap |-> heap, ref |-> val]
             done == IF val.type = "ref"
                     THEN redact(copied.heap, <<copied.ref.addr>>)
                     ELSE copied.heap
             rest == debugArgs(done, Tail(args))
         IN [heap |-> rest.heap, out |-> <<copied.ref>> \o rest.out]

debug(s, args) ==
    IF ~s.debugging.debugLogging THEN s
    ELSE LET r == debugArgs(s.debugging.heap, args)
         IN [s EXCEPT !.debugging.heap = r.heap,
                      !.debugging.logged =
                          Append(@, [args |-> args,
                                     out |-> <<Str("[sign-addon]")>> \o r.out])]

\* What the callers of debug() hold: a request configuration with its own
\* headers (1), and a response report whose headers sit one level down (3).
HeaderValues == {Undefined, Str(""), Str("JWT token")}

Heaps ==
    { LET top == IF auth = Undefined THEN [Accept |-> Str("application/json")]
                 ELSE [Accept |-> Str("application/json"),
                       Authorization |-> auth]
          low == (IF cookie = Undefined THEN [Accept |-> Str("text/html")]
                  ELSE [Accept |-> Str("text/html"), cookie |-> cookie])
                 @@ (IF setCookie THEN [x \in {"set-cookie"} |-> Ref(6)]
                     ELSE <<>>)
      IN (1 :> [fields |-> [headers |-> Ref(2), body |-> Str("upload")]])
         @@ (2 :> [fields |-> top])
         @@ (3 :> [fields |-> [request |-> Ref(4), body |-> Null]])
         @@ (4 :> [fields |-> [headers |-> Ref(5), response |-> Str("ok")]])
         @@ (5 :> [fields |-> low])
         @@ (6 :> [fields |-> [x \in {"0"} |-> Str("foo=bar")]])
      : auth \in HeaderValues, cookie \in HeaderValues, setCookie \in BOOLEAN }

DebugArguments ==
    { <<Str("prefix"), Null>>,
      <<Str("[API] POST request:"), Ref(1)>>,
      <<Str("first"), Ref(3)>>,
      <<Ref(1), Ref(3)>> }

DebugInit ==
    /\ addon = 1
    /\ \E flag \in BOOLEAN, heap \in Heaps :
         Is([Blank EXCEPT !.debugging = [debugLogging |-> flag, given |-> heap,
                                         heap |-> heap, logged |-> <<>>,
                                         calls |-> 0]])

DebugCall ==
    /\ debugging.calls < MaxDebugCalls
    /\ \E args \in DebugArguments :
         Becomes([debug(Now, args) EXCEPT !.debugging.calls = @ + 1])
    /\ UNCHANGED addon

DebugNext == DebugCall

DebugSpec == DebugInit /\ [][DebugNext]_vars

\* The value a reference stands for, with every object written out in full
RECURSIVE TreeOf(_, _)
TreeOf(heap, v) ==
    IF v.type = "ref"
    THEN [type |-> "object",
          fields |-> [k \in DOMAIN heap[v.addr].fields |->
                        TreeOf(heap, heap[v.addr].fields[k])]]
    ELSE v

\* A written-out value with the non-empty sensitive headers of every object
\* in it, at any depth, replaced
RECURSIVE Sanitized(_)
Sanitized(tree) ==
    IF tree.type # "object" THEN tree
    ELSE LET f == tree.fields
             Hidden(h) ==
                 [type |-> "object",
                  fields |-> [k \in DOMAIN h.fields |->
                                IF k \in Sensitive /\ h.fields[k] # Str("")
                                THEN Redaction ELSE h.fields[k]]]
         IN [type |-> "object",
             fields |-> [k \in DOMAIN f |->
                           IF k = "headers" /\ f[k].type = "object"
                           THEN Sanitized(Hidden(f[k]))
                           ELSE Sanitized(f[k])]]

LoggedCopyOf(entry, j) ==
    IF entry.args[j].type = "ref"
    THEN /\ entry.out[j + 1].type = "ref"
         /\ entry.out[j + 1].addr \notin DOMAIN debugging.given
         /\ Reach(debugging.heap, <<entry.out[j + 1].addr>>)
                \cap DOMAIN debugging.given = {}
         /\ TreeOf(debugging.heap, entry.out[j + 1])
                = Sanitized(TreeOf(debugging.given, entry.args[j]))
    ELSE entry.out[j + 1] = entry.args[j]

\* C40: debug() leaves every object passed to it as it was; what it logs are
\* deep copies in which the non-empty Authorization, cookie and set-cookie
\* headers of every object, at any depth, read '<REDACTED>'; and it logs
\* nothing when debugLogging is false.
C40_DebugLogsRedactedCopies ==
    /\ \A a \in DOMAIN debugging.given : debugging.heap[a] = debugging.given[a]
    /\ ~debugging.debugLogging => debugging.logged = <<>>
    /\ debugging.debugLogging => Len(debugging.logged) = debugging.calls
    /\ \A i \in 1..Len(debugging.logged) :
         LET entry == debugging.logged[i]
         IN /\ Len(entry.out) = Len(entry.args) + 1
            /\ entry.out[1] = Str("[sign-addon]")
            /\ \A j \in 1..Len(entry.args) : LoggedCopyOf(entry, j)

C40_Witness ==
    /\ debugging.debugLogging
    /\ "Authorization" \in DOMAIN debugging.given[2].fields
    /\ "set-cookie" \in DOMAIN debugging.given[5].fields
    /\ \E i \in 1..Len(debugging.logged) :
         LET entry == debugging.logged[i]
         IN /\ entry.args = <<Ref(1), Ref(3)>>
            /\ TreeOf(debugging.given, Ref(1)).fields.headers.fields.Authorization
                 = Str("JWT token")
            /\ TreeOf(debugging.heap, entry.out[2]).fields.headers.fields.Authorization
                 = Redaction
            /\ TreeOf(debugging.given, Ref(3))
                 .fields.request.fields.headers.fields["set-cookie"].type = "object"
            /\ TreeOf(debugging.heap, entry.out[3])
                 .fields.request.fields.headers.fields["set-cookie"] = Redaction

C40_WitnessSilent ==
    /\ ~debugging.debugLogging
    /\ debugging.calls > 0

====
